---- MODULE Spec2Model ----
(***************************************************************************)
(* Model of the LLM orchestration core of pdfextractor:                    *)
(*   - RateLimiter (app/services/rate_limiter.py), executed statement by   *)
(*     statement by one or more caller threads; the class takes no lock,   *)
(*     so every read and write of a limiter field is a step of its own;    *)
(*   - the clock (time.time) and time.sleep;                               *)
(*   - the sessions: ClaudeWrapper, GeminiWrapper and OpenAIWrapper        *)
(*     (app/services/llm_factory.py), one step per limiter call, provider  *)
(*     call and usage record of set_file_contents / get_response;          *)
(*   - TokenTracker (app/services/token_tracker.py).                       *)
(* Time is counted in seconds; the clock advances in steps of TickLen.     *)
(* The wrappers call self.rate_limiter.check_limits(n); that call is       *)
(* modelled by RateLimiter.check_limits, the only check_limits there is,   *)
(* although rate_limiter.py:71-75 binds RATE_LIMITERS to ratelimit         *)
(* decorators.                                                             *)
(***************************************************************************)
EXTENDS Integers, Sequences, FiniteSets, TLC

(* -------- bounds of the model -------- *)
TickLen == 20
Epoch == 60
MaxTime == 160
MaxTimeConc == 120
MaxCalls == 3
MaxCallsConc == 1
MaxRPM == 2
MaxTPM == 1
MaxEst == 2
MaxTimeSession == 80
MaxAsks == 2
MaxAttach == 2
SessionRPM == 2
SessionTPM == 2500
MaxTok == 2
MaxTimeLive == 80
MaxTimeProviders == 140
MaxCreates == 2
MaxRecords == 3
MaxRecordsConc == 1
MaxTracked == 2
MaxEntries == 2
MaxPeriods == 3

(* -------- program constants -------- *)
\* rate_limiter.py:27,47,55  the window length in seconds
Window == 60
\* llm_factory.py:125,221,331  check_limits(1000) before the completion request
CompletionEstimate == 1000
\* llm_factory.py:181  check_limits(2000) before the document upload
UploadEstimate == 2000

Providers == {"claude", "gemini", "openai"}
Threads == {1, 2}

VARIABLES
    now,            \* time.time()
    config,         \* RateLimitConfig of every provider's limiter
    RATE_LIMITERS,  \* provider -> RateLimiter fields
    callers,        \* the threads that call the limiter
    horizon,        \* the clock stops advancing here (bound of the model)
    th,             \* per thread: position in check_limits and its locals
    admitted,       \* ghost: provider -> acquires admitted since the last reset
    contrib,        \* ghost: provider -> contributions of the returned acquires
    resetSeen,      \* ghost: provider -> a window reset has started
    llm,            \* the session: an LLMWrapper subclass instance
    ask,            \* the running get_response call and its locals
    token_tracker,  \* the global TokenTracker
    outbound,       \* ghost: the provider calls made, with their payloads
    events,         \* ghost: acquire / call / reply / error / record, in order
    log,            \* ghost: the calls made on the session and how they ended
    tk,             \* per thread: position in track_usage and its locals
    recorded,       \* ghost: the token counts handed to track_usage so far
    _llm,           \* analysis_tools._llm, the module-level LLM instance
    sessions,       \* the wrappers created so far, by number
    req,            \* per underwrite request: position and locals
    toolcalls,      \* ghost: the get_response calls made by the tools
    created,        \* ghost: the create_llm calls made and how they ended
    answers,        \* ghost: the last two queries of the token tracker
    tracked,        \* ghost: the track_usage calls made and how they ended
    response,       \* the text _llm.get_response returned to a tool
    tool            \* the tool call that ran on the reply, and what it returned

limiterVars == <<now, config, RATE_LIMITERS, callers, horizon, th, admitted, contrib, resetSeen>>
sessionVars == <<llm, ask, token_tracker, outbound, events, log>>
trackerVars == <<tk, recorded>>
appVars == <<_llm, sessions, req, toolcalls, created>>
queryVars == <<answers, tracked>>
toolVars == <<response, tool>>
vars == <<limiterVars, sessionVars, trackerVars, appVars, queryVars, toolVars>>

(* -------- RateLimitConfig / RateLimiter -------- *)
RateLimitConfig(maxRpm) ==
    [requests_per_minute : 1..maxRpm,
     tokens_per_minute : {MaxTPM},
     min_request_interval : {0, TickLen}]

\* RateLimiter.__init__
RateLimiter(t0) ==
    [last_request_time |-> 0, request_count |-> 0, token_count |-> 0,
     last_reset |-> t0]

IdleThread ==
    [pc |-> "idle", provider |-> "claude", estimated_tokens |-> 0,
     current_time |-> 0, reset_time |-> 0, ret |-> "idle", wake |-> 0,
     tmp |-> 0, budget |-> 0,
     \* ghosts: the clock and the limiter as the call found them, and the
     \* sum of the sleep times the call has asked time.sleep for
     entry_time |-> 0, entry_count |-> 0, entry_reset |-> 0, slept |-> 0]

\* _reset_if_needed: `current_time - self.last_reset >= 60`
WindowElapsed(rt, lr) == rt - lr >= Window

TooSoon_never(ct, lrt, cfg) == FALSE

\* check_limits: `time_since_last < self.config.min_request_interval`
TooSoon(ct, lrt, cfg) == ct - lrt < cfg.min_request_interval

RequestLimitHit_offByOne(rc, cfg) == rc > cfg.requests_per_minute

\* check_limits: `self.request_count >= self.config.requests_per_minute`
RequestLimitHit(rc, cfg) == rc >= cfg.requests_per_minute

TokenLimitHit_never(tc, est, cfg) == FALSE

\* check_limits: `estimated_tokens > 0 and self.token_count + estimated_tokens
\*                > self.config.tokens_per_minute`
TokenLimitHit(tc, est, cfg) == est > 0 /\ tc + est > cfg.tokens_per_minute

\* check_limits: `sleep_time = 60 - (current_time - self.last_reset)`
SleepTime(ct, lr) == Window - (ct - lr)

Lim(t) == RATE_LIMITERS[th[t].provider]
Cfg(t) == config[th[t].provider]

SetTh(t, r) == th' = [th EXCEPT ![t] = r]
SetLim_oneForAll(t, r) == RATE_LIMITERS' = [p \in Providers |-> r]

\* self.rate_limiter = RATE_LIMITERS[<provider>]: a caller writes the fields of
\* its provider's limiter
SetLim(t, r) == RATE_LIMITERS' = [RATE_LIMITERS EXCEPT ![th[t].provider] = r]

(* -------- texts, messages, sessions -------- *)
\* a text is a tuple of characters
Count(text, ch) == Cardinality({i \in DOMAIN text : text[i] = ch})

Unbalanced_anyBrace(text) == Count(text, "{") > 0

\* get_response: `response_text.count('{') != response_text.count('}')`
Unbalanced(text) == Count(text, "{") # Count(text, "}")

Prompts == {<<"p">>, <<"q">>}
Replies == {<<"{", "}">>, <<"{">>, <<"a">>}
Files == {"f1", "f2"}
\* set_file_contents: "I've just shared some bank statements with you. ..."
verification_prompt == <<"v">>
\* get_response: "Please complete the JSON response. Return ONLY the complete JSON."
completion_prompt == <<"c">>
\* GeminiWrapper.get_response: "Here are the bank statements. Please analyze them."
upload_text == <<"h">>

Part(type, data) == [type |-> type, data |-> data]
Msg(role, content) == [role |-> role, content |-> content]

\* the characters of a payload, standing for len(str(messages))
RECURSIVE PartsLen(_)
PartsLen(parts) ==
    IF parts = <<>> THEN 0 ELSE Len(Head(parts).data) + PartsLen(Tail(parts))
RECURSIVE StrLen(_)
StrLen(messages) ==
    IF messages = <<>> THEN 0
    ELSE PartsLen(Head(messages).content) + StrLen(Tail(messages))

\* int(len(...) * 1.3)
Estimate(n) == (13 * n) \div 10

\* LLMWrapper.__init__ and the __init__ of the three wrappers
NewSession(kind) ==
    [kind |-> kind, file_contents |-> <<>>, messages |-> <<>>, first_call |-> TRUE,
     chat |-> 0, chat_history |-> <<>>, pdf_content |-> <<>>]
NoSession == NewSession("claude")

IdleAsk ==
    [pc |-> "idle", prompt |-> <<>>, messages |-> <<>>, response_text |-> <<>>,
     raw |-> <<>>, calls |-> <<>>, estimated_tokens |-> 0]

\* TokenTracker.__init__
TokenTracker ==
    [history |-> <<>>, running_total |-> [input_tokens |-> 0, output_tokens |-> 0]]

\* a text argument that is None instead of a str
None == <<"None">>
\* the model argument of get_total_usage when it is None
NoModel == "None"
\* model names: one tiktoken knows, one with "gpt" in it that
\* tiktoken.encoding_for_model does not know (KeyError), one without "gpt"
\* (encoded with cl100k_base)
Models == {"gpt-4o", "gpt-unknown", "claude-3-5-sonnet"}
\* TokenTracker._get_encoder(model) returns an encoder
HasEncoder(model) == model # "gpt-unknown"

\* TokenTracker.count_tokens, with one token per character: encoder.encode
\* raises for None and _get_encoder for an unknown model; the except clause
\* then returns len(text) // 4, which raises TypeError for None
count_tokens(text, model) ==
    IF text = None THEN [error |-> "TypeError", n |-> 0]
    ELSE IF HasEncoder(model) THEN [error |-> "none", n |-> Len(text)]
    ELSE [error |-> "none", n |-> Len(text) \div 4]

\* lines 70-77
TokenUsage(input_tokens, output_tokens, endpoint, model) ==
    [input_tokens |-> input_tokens, output_tokens |-> output_tokens,
     endpoint |-> endpoint, model |-> model]

\* lines 79-81, run by one caller
Record(tt, usage) ==
    [history |-> Append(tt.history, usage),
     running_total |->
         [input_tokens |-> tt.running_total.input_tokens + usage.input_tokens,
          output_tokens |-> tt.running_total.output_tokens + usage.output_tokens]]

\* the model name a wrapper hands to track_usage
ModelName(kind) ==
    CASE kind = "claude" -> "Config.CLAUDE_MODEL"
      [] kind = "gemini" -> "Config.GEMINI_MODEL"
      [] kind = "openai" -> "Config.OPENAI_MODEL"

\* TokenTracker.track_usage as the wrappers call it, with str texts
track_usage(tt, input_len, output_text, model, endpoint) ==
    Record(tt, TokenUsage(input_len, count_tokens(output_text, model).n, endpoint, model))

\* TokenTracker.track_usage for any texts: lines 67-68 count the tokens and
\* an exception of count_tokens leaves the call before line 79
track_usage_call(tt, input_text, output_text, model, endpoint) ==
    LET i == count_tokens(input_text, model)
        o == count_tokens(output_text, model)
    IN IF i.error # "none" THEN [error |-> i.error, tracker |-> tt]
       ELSE IF o.error # "none" THEN [error |-> o.error, tracker |-> tt]
       ELSE [error |-> "none",
             tracker |-> Record(tt, TokenUsage(i.n, o.n, endpoint, model))]

(* -------- the clock -------- *)
Tick ==
    /\ now + TickLen <= horizon
    /\ now' = now + TickLen
    /\ UNCHANGED <<config, RATE_LIMITERS, callers, horizon, th, admitted, contrib, resetSeen, sessionVars, trackerVars, appVars, queryVars, toolVars>>

\* the callers asleep in time.sleep
Sleepers == {t \in callers : th[t].pc \in {"L43", "L50", "L58"} /\ th[t].wake > now}

\* time passes beyond the horizon for as long as a caller sleeps: the clock
\* reaches the earliest time a sleeper is to wake
Wake ==
    /\ now + TickLen > horizon
    /\ Sleepers # {}
    /\ \E t \in Sleepers :
          /\ \A u \in Sleepers : th[t].wake <= th[u].wake
          /\ now' = th[t].wake
    /\ UNCHANGED <<config, RATE_LIMITERS, callers, horizon, th, admitted, contrib, resetSeen, sessionVars, trackerVars, appVars, queryVars, toolVars>>

(* -------- check_limits, one statement per step -------- *)
\* a caller issues check_limits(estimated_tokens)
Call(t) ==
    /\ t \in callers
    /\ th[t].pc = "idle"
    /\ th[t].budget > 0
    /\ \E est \in 0..MaxEst :
         SetTh(t, [th[t] EXCEPT !.pc = "L35", !.estimated_tokens = est,
                                !.budget = @ - 1])
    /\ UNCHANGED <<now, config, RATE_LIMITERS, callers, horizon, admitted, contrib, resetSeen, sessionVars, trackerVars, appVars, queryVars, toolVars>>

\* line 35: current_time = time.time(); line 36 calls _reset_if_needed
L35(t) ==
    /\ th[t].pc = "L35"
    /\ SetTh(t, [th[t] EXCEPT !.pc = "R26", !.ret = "L39", !.current_time = now,
                              !.entry_time = now,
                              !.entry_count = Lim(t).request_count,
                              !.entry_reset = Lim(t).last_reset])
    /\ UNCHANGED <<now, config, RATE_LIMITERS, callers, horizon, admitted, contrib, resetSeen, sessionVars, trackerVars, appVars, queryVars, toolVars>>

\* _reset_if_needed line 26: current_time = time.time()
R26(t) ==
    /\ th[t].pc = "R26"
    /\ SetTh(t, [th[t] EXCEPT !.pc = "R27", !.reset_time = now])
    /\ UNCHANGED <<now, config, RATE_LIMITERS, callers, horizon, admitted, contrib, resetSeen, sessionVars, trackerVars, appVars, queryVars, toolVars>>

\* _reset_if_needed line 27: if current_time - self.last_reset >= 60
R27(t) ==
    /\ th[t].pc = "R27"
    /\ IF WindowElapsed(th[t].reset_time, Lim(t).last_reset)
       THEN SetTh(t, [th[t] EXCEPT !.pc = "R29"])
       ELSE SetTh(t, [th[t] EXCEPT !.pc = th[t].ret, !.reset_time = 0])
    /\ UNCHANGED <<now, config, RATE_LIMITERS, callers, horizon, admitted, contrib, resetSeen, sessionVars, trackerVars, appVars, queryVars, toolVars>>

\* _reset_if_needed line 29: self.request_count = 0
R29(t) ==
    /\ th[t].pc = "R29"
    /\ SetLim(t, [Lim(t) EXCEPT !.request_count = 0])
    /\ SetTh(t, [th[t] EXCEPT !.pc = "R30"])
    /\ admitted' = [admitted EXCEPT ![th[t].provider] = 0]
    /\ resetSeen' = [resetSeen EXCEPT ![th[t].provider] = TRUE]
    /\ UNCHANGED <<now, config, callers, horizon, contrib, sessionVars, trackerVars, appVars, queryVars, toolVars>>

\* _reset_if_needed line 30: self.token_count = 0
R30(t) ==
    /\ th[t].pc = "R30"
    /\ SetLim(t, [Lim(t) EXCEPT !.token_count = 0])
    /\ SetTh(t, [th[t] EXCEPT !.pc = "R31"])
    /\ UNCHANGED <<now, config, callers, horizon, admitted, contrib, resetSeen, sessionVars, trackerVars, appVars, queryVars, toolVars>>

\* _reset_if_needed line 31: self.last_reset = current_time; return
R31(t) ==
    /\ th[t].pc = "R31"
    /\ SetLim(t, [Lim(t) EXCEPT !.last_reset = th[t].reset_time])
    /\ SetTh(t, [th[t] EXCEPT !.pc = th[t].ret, !.reset_time = 0])
    /\ UNCHANGED <<now, config, callers, horizon, admitted, contrib, resetSeen, sessionVars, trackerVars, appVars, queryVars, toolVars>>

\* lines 39-43: minimum delay between requests
L39(t) ==
    /\ th[t].pc = "L39"
    /\ IF TooSoon(th[t].current_time, Lim(t).last_request_time, Cfg(t))
       THEN LET s == Cfg(t).min_request_interval
                         - (th[t].current_time - Lim(t).last_request_time) IN
            SetTh(t, [th[t] EXCEPT !.pc = "L43", !.wake = now + s, !.slept = @ + s])
       ELSE SetTh(t, [th[t] EXCEPT !.pc = "L46"])
    /\ UNCHANGED <<now, config, RATE_LIMITERS, callers, horizon, admitted, contrib, resetSeen, sessionVars, trackerVars, appVars, queryVars, toolVars>>

Woken_never(t) == FALSE

\* time.sleep(sleep_time) returns, no earlier than asked
Woken(t) == now >= th[t].wake

\* line 43: time.sleep(sleep_time) returns
L43(t) ==
    /\ th[t].pc = "L43"
    /\ Woken(t)
    /\ SetTh(t, [th[t] EXCEPT !.pc = "L46", !.wake = 0])
    /\ UNCHANGED <<now, config, RATE_LIMITERS, callers, horizon, admitted, contrib, resetSeen, sessionVars, trackerVars, appVars, queryVars, toolVars>>

\* line 46: if self.request_count >= self.config.requests_per_minute
L46(t) ==
    /\ th[t].pc = "L46"
    /\ SetTh(t, [th[t] EXCEPT !.pc =
            IF RequestLimitHit(Lim(t).request_count, Cfg(t)) THEN "L47" ELSE "L54"])
    /\ UNCHANGED <<now, config, RATE_LIMITERS, callers, horizon, admitted, contrib, resetSeen, sessionVars, trackerVars, appVars, queryVars, toolVars>>

\* lines 47-48: sleep_time = 60 - (current_time - self.last_reset); if > 0
L47(t) ==
    /\ th[t].pc = "L47"
    /\ LET s == SleepTime(th[t].current_time, Lim(t).last_reset) IN
         IF s > 0
         THEN SetTh(t, [th[t] EXCEPT !.pc = "L50", !.wake = now + s, !.slept = @ + s])
         ELSE SetTh(t, [th[t] EXCEPT !.pc = "L54"])
    /\ UNCHANGED <<now, config, RATE_LIMITERS, callers, horizon, admitted, contrib, resetSeen, sessionVars, trackerVars, appVars, queryVars, toolVars>>

\* lines 50-51: time.sleep(sleep_time) returns; self._reset_if_needed()
L50(t) ==
    /\ th[t].pc = "L50"
    /\ Woken(t)
    /\ SetTh(t, [th[t] EXCEPT !.pc = "R26", !.ret = "L54", !.wake = 0])
    /\ UNCHANGED <<now, config, RATE_LIMITERS, callers, horizon, admitted, contrib, resetSeen, sessionVars, trackerVars, appVars, queryVars, toolVars>>

\* line 54: token limit check
L54(t) ==
    /\ th[t].pc = "L54"
    /\ SetTh(t, [th[t] EXCEPT !.pc =
            IF TokenLimitHit(Lim(t).token_count, th[t].estimated_tokens, Cfg(t))
            THEN "L55" ELSE "L62"])
    /\ UNCHANGED <<now, config, RATE_LIMITERS, callers, horizon, admitted, contrib, resetSeen, sessionVars, trackerVars, appVars, queryVars, toolVars>>

\* lines 55-56: sleep_time = 60 - (current_time - self.last_reset); if > 0
L55(t) ==
    /\ th[t].pc = "L55"
    /\ LET s == SleepTime(th[t].current_time, Lim(t).last_reset) IN
         IF s > 0
         THEN SetTh(t, [th[t] EXCEPT !.pc = "L58", !.wake = now + s, !.slept = @ + s])
         ELSE SetTh(t, [th[t] EXCEPT !.pc = "L62"])
    /\ UNCHANGED <<now, config, RATE_LIMITERS, callers, horizon, admitted, contrib, resetSeen, sessionVars, trackerVars, appVars, queryVars, toolVars>>

\* lines 58-59: time.sleep(sleep_time) returns; self._reset_if_needed()
L58(t) ==
    /\ th[t].pc = "L58"
    /\ Woken(t)
    /\ SetTh(t, [th[t] EXCEPT !.pc = "R26", !.ret = "L62", !.wake = 0])
    /\ UNCHANGED <<now, config, RATE_LIMITERS, callers, horizon, admitted, contrib, resetSeen, sessionVars, trackerVars, appVars, queryVars, toolVars>>

\* line 62, read half of `self.request_count += 1`
L62(t) ==
    /\ th[t].pc = "L62"
    /\ SetTh(t, [th[t] EXCEPT !.pc = "L62w", !.tmp = Lim(t).request_count,
                              !.current_time = 0, !.ret = "idle"])
    /\ admitted' = [admitted EXCEPT ![th[t].provider] = @ + 1]
    /\ UNCHANGED <<now, config, RATE_LIMITERS, callers, horizon, contrib, resetSeen, sessionVars, trackerVars, appVars, queryVars, toolVars>>

\* line 62, write half
L62w(t) ==
    /\ th[t].pc = "L62w"
    /\ SetLim(t, [Lim(t) EXCEPT !.request_count = th[t].tmp + 1])
    /\ SetTh(t, [th[t] EXCEPT !.pc = "L63", !.tmp = 0])
    /\ UNCHANGED <<now, config, callers, horizon, admitted, contrib, resetSeen, sessionVars, trackerVars, appVars, queryVars, toolVars>>

\* line 63, read half of `self.token_count += estimated_tokens`
L63(t) ==
    /\ th[t].pc = "L63"
    /\ SetTh(t, [th[t] EXCEPT !.pc = "L63w", !.tmp = Lim(t).token_count])
    /\ UNCHANGED <<now, config, RATE_LIMITERS, callers, horizon, admitted, contrib, resetSeen, sessionVars, trackerVars, appVars, queryVars, toolVars>>

\* line 63, write half
L63w(t) ==
    /\ th[t].pc = "L63w"
    /\ SetLim(t, [Lim(t) EXCEPT !.token_count = th[t].tmp + th[t].estimated_tokens])
    /\ SetTh(t, [th[t] EXCEPT !.pc = "L64", !.tmp = 0])
    /\ UNCHANGED <<now, config, callers, horizon, admitted, contrib, resetSeen, sessionVars, trackerVars, appVars, queryVars, toolVars>>

\* line 64: self.last_request_time = time.time(); check_limits returns
L64(t) ==
    /\ th[t].pc = "L64"
    /\ SetLim(t, [Lim(t) EXCEPT !.last_request_time = now])
    /\ SetTh(t, [th[t] EXCEPT !.pc = "done"])
    /\ contrib' = [contrib EXCEPT ![th[t].provider] =
                     [req |-> @.req + 1, tok |-> @.tok + th[t].estimated_tokens]]
    /\ UNCHANGED <<now, config, callers, horizon, admitted, resetSeen, sessionVars, trackerVars, appVars, queryVars, toolVars>>

\* the caller goes on after check_limits returned
Return(t) ==
    /\ th[t].pc = "done"
    /\ SetTh(t, [IdleThread EXCEPT !.provider = th[t].provider,
                                  !.budget = th[t].budget])
    /\ UNCHANGED <<now, config, RATE_LIMITERS, callers, horizon, admitted, contrib, resetSeen, sessionVars, trackerVars, appVars, queryVars, toolVars>>

check_limits(t) ==
    \/ L35(t) \/ R26(t) \/ R27(t) \/ R29(t) \/ R30(t) \/ R31(t)
    \/ L39(t) \/ L43(t) \/ L46(t) \/ L47(t) \/ L50(t)
    \/ L54(t) \/ L55(t) \/ L58(t)
    \/ L62(t) \/ L62w(t) \/ L63(t) \/ L63w(t) \/ L64(t)

(* -------- check_limits run to completion by a lone caller -------- *)
\* _reset_if_needed at time t
reset_if_needed(l, t) ==
    IF WindowElapsed(t, l.last_reset)
    THEN [l EXCEPT !.request_count = 0, !.token_count = 0, !.last_reset = t]
    ELSE l

\* check_limits entered at time t0 by the only caller of the limiter, every
\* sleep lasting as long as asked: the limiter it leaves and the time it returns
check_limits_alone(l, cfg, est, t0) ==
    LET l1 == reset_if_needed(l, t0)
        t1 == IF TooSoon(t0, l1.last_request_time, cfg)
              THEN t0 + (cfg.min_request_interval - (t0 - l1.last_request_time))
              ELSE t0
        b2 == RequestLimitHit(l1.request_count, cfg) /\ SleepTime(t0, l1.last_reset) > 0
        t2 == IF b2 THEN t1 + SleepTime(t0, l1.last_reset) ELSE t1
        l2 == IF b2 THEN reset_if_needed(l1, t2) ELSE l1
        b3 == TokenLimitHit(l2.token_count, est, cfg) /\ SleepTime(t0, l2.last_reset) > 0
        t3 == IF b3 THEN t2 + SleepTime(t0, l2.last_reset) ELSE t2
        l3 == IF b3 THEN reset_if_needed(l2, t3) ELSE l2
    IN [limiter |-> [l3 EXCEPT !.request_count = @ + 1,
                               !.token_count = @ + est,
                               !.last_request_time = t3],
        time |-> t3]

(* -------- the wrappers: set_file_contents and get_response -------- *)
Range(f) == {f[i] : i \in DOMAIN f}

\* the document parts of the files that could be read (ClaudeWrapper lines
\* 71-84, GeminiWrapper lines 170-175)
RECURSIVE DocParts(_, _)
DocParts(files, ok) ==
    IF files = <<>> THEN <<>>
    ELSE (IF Head(files) \in ok THEN <<Part("document", <<Head(files)>>)>> ELSE <<>>)
         \o DocParts(Tail(files), ok)

\* OpenAIWrapper lines 265-273: the text extracted from the readable files
RECURSIVE ExtractText(_, _)
ExtractText(files, ok) ==
    IF files = <<>> THEN <<>>
    ELSE (IF Head(files) \in ok THEN <<Head(files)>> ELSE <<>>)
         \o ExtractText(Tail(files), ok)

FirstCallWithFiles_everyCall(l) == l.file_contents # <<>>

\* `if self.first_call and self.file_contents`
FirstCallWithFiles(l) == l.first_call /\ l.file_contents # <<>>

Running(pc, prompt, messages) ==
    [IdleAsk EXCEPT !.pc = pc, !.prompt = prompt, !.messages = messages]

\* ClaudeWrapper.get_response lines 66-95
ClaudeBegin(l, prompt, ok) ==
    LET docs == IF FirstCallWithFiles(l) THEN DocParts(l.file_contents, ok) ELSE <<>>
        message_content == docs \o <<Part("text", prompt)>>
    IN [llm |-> [l EXCEPT !.first_call = IF FirstCallWithFiles(l) THEN FALSE ELSE @,
                          !.messages = Append(@, Msg("user", message_content))],
        ask |-> Running("acquire_main", prompt, <<>>)]

\* OpenAIWrapper.get_response lines 257-293
OpenAIBegin(l, prompt, ok) ==
    LET content_text == IF FirstCallWithFiles(l)
                        THEN ExtractText(l.file_contents, ok) ELSE <<>>
        statements ==
            IF FirstCallWithFiles(l)
            THEN (IF content_text # <<>>
                  THEN <<Msg("user", <<Part("statements", content_text)>>)>> ELSE <<>>)
            ELSE (IF l.pdf_content # <<>>
                  THEN <<Msg("user", <<Part("statements", l.pdf_content)>>)>> ELSE <<>>)
    IN [llm |-> [l EXCEPT !.first_call = IF FirstCallWithFiles(l) THEN FALSE ELSE @,
                          !.pdf_content = IF content_text # <<>> THEN content_text ELSE @],
        ask |-> Running("acquire_main", prompt,
                        statements \o <<Msg("user", <<Part("str", prompt)>>)>>)]

\* GeminiWrapper.get_response lines 163-200
GeminiBegin(l, prompt, ok) ==
    IF FirstCallWithFiles(l)
    THEN LET fresh == [l EXCEPT !.chat = @ + 1, !.chat_history = <<>>] IN
         IF Range(l.file_contents) \subseteq ok
         THEN [llm |-> fresh,
               ask |-> Running("acquire_upload", prompt,
                         <<Msg("user", DocParts(l.file_contents, ok)
                                       \o <<Part("text", upload_text)>>)>>)]
         ELSE [llm |-> fresh, ask |-> Running("raise", prompt, <<>>)]
    ELSE [llm |-> IF l.chat = 0 THEN [l EXCEPT !.chat = 1] ELSE l,
          ask |-> Running("acquire_main", prompt, <<>>)]

Begin(l, prompt, ok) ==
    CASE l.kind = "claude" -> ClaudeBegin(l, prompt, ok)
      [] l.kind = "gemini" -> GeminiBegin(l, prompt, ok)
      [] l.kind = "openai" -> OpenAIBegin(l, prompt, ok)

\* the outcomes of opening the files: any subset of them can be read
Readable(l) == IF FirstCallWithFiles(l) THEN SUBSET Range(l.file_contents) ELSE {{}}

\* the record of a call on the session; `before` is the session it found
LogEntry(op, arg, l) ==
    [op |-> op, arg |-> arg, outcome |-> "running", text |-> <<>>, raw |-> <<>>,
     calls |-> <<>>, before |-> l]

\* the call ends: by `return response_text` or by the exception leaving it
Finish(b, outcome) ==
    /\ ask' = IdleAsk
    /\ log' = [log EXCEPT ![Len(log)] =
                 [@ EXCEPT !.outcome = outcome, !.text = b.response_text,
                           !.raw = b.raw, !.calls = b.calls]]

Start(l, op, arg, prompt) ==
    \E ok \in Readable(l) :
        LET b == Begin(l, prompt, ok) IN
        /\ llm' = b.llm
        /\ IF b.ask.pc = "raise"
           THEN /\ ask' = IdleAsk
                /\ log' = Append(log, [LogEntry(op, arg, l) EXCEPT !.outcome = "raised"])
           ELSE /\ ask' = b.ask
                /\ log' = Append(log, LogEntry(op, arg, l))

Attaches == Cardinality({i \in DOMAIN log : log[i].op = "set_file_contents"})

\* LLMWrapper.set_file_contents: store the contents, then ask for verification
SetFileContents(contents) ==
    /\ ask.pc = "idle"
    /\ Len(log) < MaxAsks
    /\ Attaches < MaxAttach
    /\ Start([llm EXCEPT !.file_contents = contents], "set_file_contents",
             contents, verification_prompt)
    /\ UNCHANGED <<limiterVars, token_tracker, outbound, events, trackerVars, appVars, queryVars, toolVars>>

\* get_response(prompt) is called with a prompt
GetResponse(prompt) ==
    /\ ask.pc = "idle"
    /\ Len(log) < MaxAsks
    /\ Start(llm, "get_response", prompt, prompt)
    /\ UNCHANGED <<limiterVars, token_tracker, outbound, events, trackerVars, appVars, queryVars, toolVars>>

\* a prompt that is falsy: None or the empty string
NoPrompts == {None, <<>>}

\* get_response without a prompt. GeminiWrapper and OpenAIWrapper have their
\* whole body under `if prompt:` (lines 163, 257) and return None at once;
\* ClaudeWrapper skips lines 67-95 only and goes on to the try block of line
\* 97 with self.messages as it is
BeginNoPrompt(l) ==
    IF l.kind = "claude" THEN Running("acquire_main", <<>>, <<>>) ELSE IdleAsk

GetResponseNoPrompt(prompt) ==
    /\ ask.pc = "idle"
    /\ Len(log) < MaxAsks
    /\ LET b == BeginNoPrompt(llm) IN
         /\ ask' = b
         /\ log' = Append(log,
                IF b.pc = "idle"
                THEN [LogEntry("get_response", prompt, llm) EXCEPT
                         !.outcome = "returned", !.text = None]
                ELSE LogEntry("get_response", prompt, llm))
    /\ UNCHANGED <<limiterVars, llm, token_tracker, outbound, events, trackerVars,
                   appVars, queryVars, toolVars>>

\* the estimate handed to check_limits (lines 98, 125, 181, 202, 221, 298, 331)
EstimatedTokens ==
    CASE ask.pc = "acquire_upload" -> UploadEstimate
      [] ask.pc = "acquire_cont" -> CompletionEstimate
      [] ask.pc = "acquire_main" /\ llm.kind = "claude" -> Estimate(StrLen(llm.messages))
      [] ask.pc = "acquire_main" /\ llm.kind = "gemini" -> Estimate(Len(ask.prompt))
      [] ask.pc = "acquire_main" /\ llm.kind = "openai" -> Estimate(StrLen(ask.messages))

AfterAcquire(pc) ==
    CASE pc = "acquire_upload" -> "call_upload"
      [] pc = "acquire_main" -> "call_main"
      [] pc = "acquire_cont" -> "call_cont"

\* self.rate_limiter.check_limits(...)
Acquire ==
    /\ ask.pc \in {"acquire_upload", "acquire_main", "acquire_cont"}
    /\ LET r == check_limits_alone(RATE_LIMITERS[llm.kind], config[llm.kind],
                                   EstimatedTokens, now) IN
         /\ RATE_LIMITERS' = [RATE_LIMITERS EXCEPT ![llm.kind] = r.limiter]
         /\ now' = r.time
    /\ ask' = [ask EXCEPT !.pc = AfterAcquire(ask.pc),
                          !.estimated_tokens = EstimatedTokens]
    /\ events' = Append(events, "acquire")
    /\ UNCHANGED <<config, callers, horizon, th, admitted, contrib, resetSeen,
                   llm, token_tracker, outbound, log, trackerVars, appVars, queryVars, toolVars>>

\* what the provider is sent (lines 101-102, 127-131, 182, 205, 223, 301-303, 333-335)
Payload ==
    CASE ask.pc = "call_upload" -> ask.messages
      [] ask.pc = "call_main" /\ llm.kind = "claude" -> llm.messages
      [] ask.pc = "call_main" /\ llm.kind = "gemini" ->
            <<Msg("user", <<Part("str", ask.prompt)>>)>>
      [] ask.pc = "call_main" /\ llm.kind = "openai" -> ask.messages
      [] ask.pc = "call_cont" /\ llm.kind = "claude" ->
            llm.messages \o <<Msg("user", <<Part("text", completion_prompt)>>)>>
      [] ask.pc = "call_cont" /\ llm.kind = "gemini" ->
            <<Msg("user", <<Part("str", completion_prompt)>>)>>
      [] ask.pc = "call_cont" /\ llm.kind = "openai" -> ask.messages

CallKind ==
    CASE ask.pc = "call_upload" -> "upload"
      [] ask.pc = "call_main" -> "main"
      [] ask.pc = "call_cont" -> "continuation"

Outbound(ok, reply) ==
    [call |-> CallKind, messages |-> Payload, ok |-> ok, reply |-> reply,
     chat |-> llm.chat, ask |-> Len(log), attached |-> llm.file_contents # <<>>]

AfterCall(pc) ==
    CASE pc = "call_upload" -> "track_upload"
      [] pc = "call_main" -> "track_main"
      [] pc = "call_cont" -> "track_cont"

\* model.invoke / chat.send_message / chat.completions.create answers
InvokeOk(reply) ==
    /\ ask.pc \in {"call_upload", "call_main", "call_cont"}
    /\ outbound' = Append(outbound, Outbound(TRUE, reply))
    /\ events' = events \o <<"call", "reply">>
    /\ ask' = [ask EXCEPT !.pc = AfterCall(ask.pc), !.response_text = reply,
                          !.raw = IF ask.pc = "call_main" THEN reply ELSE @,
                          !.calls = Append(@, CallKind)]
    \* the genai ChatSession keeps the turns it exchanged
    /\ llm' = IF llm.kind = "gemini"
              THEN [llm EXCEPT !.chat_history = @ \o Payload \o
                                   <<Msg("model", <<Part("str", reply)>>)>>]
              ELSE llm
    /\ UNCHANGED <<limiterVars, token_tracker, log, trackerVars, appVars, queryVars, toolVars>>

OnError_retry(pc) == IF pc = "call_main" THEN "acquire_main" ELSE "raise"

\* the except clauses of get_response (lines 148-150, 194-196, 239-244,
\* 355-357) log the error and re-raise it, whatever call it came from
OnError(pc) == "raise"

InvokeFail_rollback ==
    /\ ask.pc \in {"call_upload", "call_main", "call_cont"}
    /\ outbound' = Append(outbound, Outbound(FALSE, <<>>))
    /\ events' = events \o <<"call", "error">>
    /\ Finish([ask EXCEPT !.calls = Append(@, CallKind), !.response_text = <<>>],
              "raised")
    /\ RATE_LIMITERS' = [RATE_LIMITERS EXCEPT ![llm.kind] =
            [@ EXCEPT !.request_count = @ - 1,
                      !.token_count = @ - ask.estimated_tokens]]
    /\ UNCHANGED <<now, config, callers, horizon, th, admitted, contrib, resetSeen,
                   llm, token_tracker, trackerVars, appVars, queryVars, toolVars>>

\* the provider call raises: nothing is recorded, the limiter is left as the
\* acquire left it, and the exception leaves get_response
InvokeFail ==
    /\ ask.pc \in {"call_upload", "call_main", "call_cont"}
    /\ outbound' = Append(outbound, Outbound(FALSE, <<>>))
    /\ events' = events \o <<"call", "error">>
    /\ LET b == [ask EXCEPT !.calls = Append(@, CallKind), !.response_text = <<>>]
           next == OnError(ask.pc)
       IN IF next = "raise"
          THEN Finish(b, "raised")
          ELSE /\ ask' = [b EXCEPT !.pc = next]
               /\ UNCHANGED log
    /\ UNCHANGED <<limiterVars, llm, token_tracker, trackerVars, appVars, queryVars, toolVars>>

AfterMain_noAcquire(response_text) ==
    IF Unbalanced(response_text) THEN "call_cont" ELSE "return"

\* after the main reply was tracked
AfterMain(response_text) ==
    IF Unbalanced(response_text) THEN "acquire_cont" ELSE "return"

AfterCompletion_retry(response_text) ==
    IF Unbalanced(response_text) THEN "acquire_cont" ELSE "return"

\* after the completion was tracked: `response_text = completion.content`,
\* `return response_text`
AfterCompletion(response_text) == "return"

\* token_tracker.track_usage(...) of the document upload; self.first_call = False
TrackUpload ==
    /\ ask.pc = "track_upload"
    /\ token_tracker' = track_usage(token_tracker, StrLen(ask.messages), <<>>,
                                    ModelName(llm.kind), "start_chat")
    /\ events' = Append(events, "record")
    /\ llm' = [llm EXCEPT !.first_call = FALSE]
    /\ ask' = [ask EXCEPT !.pc = "acquire_main", !.messages = <<>>,
                          !.response_text = <<>>]
    /\ UNCHANGED <<limiterVars, outbound, log, trackerVars, appVars, queryVars, toolVars>>

\* track_usage of the main request, the reply is kept, the brace check
TrackMain ==
    /\ ask.pc = "track_main"
    /\ token_tracker' =
         track_usage(token_tracker,
            CASE llm.kind = "claude" -> StrLen(llm.messages)
              [] llm.kind = "gemini" -> Len(ask.prompt)
              [] llm.kind = "openai" -> StrLen(ask.messages),
            ask.response_text, ModelName(llm.kind),
            CASE llm.kind = "claude" -> "messages"
              [] llm.kind = "gemini" -> "send_message"
              [] llm.kind = "openai" -> "chat/completions")
    /\ events' = Append(events, "record")
    /\ llm' = IF llm.kind = "claude"
              THEN [llm EXCEPT !.messages =
                      Append(@, Msg("assistant", <<Part("str", ask.response_text)>>))]
              ELSE llm
    /\ LET next == AfterMain(ask.response_text)
           b == IF llm.kind = "openai" /\ next # "return"
                THEN [ask EXCEPT !.messages = @ \o
                        <<Msg("assistant", <<Part("str", ask.response_text)>>),
                          Msg("user", <<Part("str", completion_prompt)>>)>>]
                ELSE ask
       IN IF next = "return"
          THEN Finish(b, "returned")
          ELSE /\ ask' = [b EXCEPT !.pc = next]
               /\ UNCHANGED log
    /\ UNCHANGED <<limiterVars, outbound, trackerVars, appVars, queryVars, toolVars>>

\* track_usage of the completion request; its text is returned
TrackCompletion ==
    /\ ask.pc = "track_cont"
    /\ token_tracker' =
         track_usage(token_tracker,
            IF llm.kind = "openai"
            THEN StrLen(SubSeq(ask.messages, Len(ask.messages) - 1, Len(ask.messages)))
            ELSE Len(completion_prompt),
            ask.response_text, ModelName(llm.kind),
            CASE llm.kind = "claude" -> "messages/completion"
              [] llm.kind = "gemini" -> "send_message/completion"
              [] llm.kind = "openai" -> "chat/completions/completion")
    /\ events' = Append(events, "record")
    /\ LET next == AfterCompletion(ask.response_text) IN
         IF next = "return"
         THEN Finish(ask, "returned")
         ELSE /\ ask' = [ask EXCEPT !.pc = next]
              /\ UNCHANGED log
    /\ UNCHANGED <<limiterVars, llm, outbound, trackerVars, appVars, queryVars, toolVars>>

(* -------- TokenTracker.track_usage, one statement per step -------- *)
IdleTk == [pc |-> "idle", input_tokens |-> 0, output_tokens |-> 0, tmp |-> 0, budget |-> 0]

SetTk(t, r) == tk' = [tk EXCEPT ![t] = r]

RECURSIVE SumInput(_)
SumInput(history) ==
    IF history = <<>> THEN 0 ELSE Head(history).input_tokens + SumInput(Tail(history))
RECURSIVE SumOutput(_)
SumOutput(history) ==
    IF history = <<>> THEN 0 ELSE Head(history).output_tokens + SumOutput(Tail(history))

\* TokenTracker.get_total_usage(model = None)
get_total_usage(tt) ==
    [total_input_tokens |-> SumInput(tt.history),
     total_output_tokens |-> SumOutput(tt.history),
     total_tokens |-> SumInput(tt.history) + SumOutput(tt.history)]

\* TokenTracker.get_running_total
get_running_total(tt) == tt.running_total.input_tokens + tt.running_total.output_tokens

AddTokens_overwrite(total, n) == n

\* `self.running_total[...] += n`, the value stored
AddTokens(total, n) == total + n

\* a caller issues track_usage; lines 67-68 count the tokens of the two texts
Track(t) ==
    /\ tk[t].pc = "idle"
    /\ tk[t].budget > 0
    /\ \E i \in 0..MaxTok, o \in 0..MaxTok :
         /\ SetTk(t, [tk[t] EXCEPT !.pc = "T79", !.input_tokens = i,
                                   !.output_tokens = o, !.budget = @ - 1])
         /\ recorded' = [calls |-> recorded.calls + 1,
                         input_tokens |-> recorded.input_tokens + i,
                         output_tokens |-> recorded.output_tokens + o]
    /\ UNCHANGED <<limiterVars, sessionVars, appVars, queryVars, toolVars>>

\* lines 70-79: self.history.append(usage)
T79(t) ==
    /\ tk[t].pc = "T79"
    /\ token_tracker' = [token_tracker EXCEPT !.history =
            Append(@, TokenUsage(tk[t].input_tokens, tk[t].output_tokens,
                                 "messages", "Config.CLAUDE_MODEL"))]
    /\ SetTk(t, [tk[t] EXCEPT !.pc = "T80"])
    /\ UNCHANGED <<limiterVars, llm, ask, outbound, events, log, recorded, appVars, queryVars, toolVars>>

\* line 80, read half of `self.running_total['input_tokens'] += input_tokens`
T80(t) ==
    /\ tk[t].pc = "T80"
    /\ SetTk(t, [tk[t] EXCEPT !.pc = "T80w",
                              !.tmp = token_tracker.running_total.input_tokens])
    /\ UNCHANGED <<limiterVars, sessionVars, recorded, appVars, queryVars, toolVars>>

\* line 80, write half
T80w(t) ==
    /\ tk[t].pc = "T80w"
    /\ token_tracker' = [token_tracker EXCEPT !.running_total.input_tokens =
            AddTokens(tk[t].tmp, tk[t].input_tokens)]
    /\ SetTk(t, [tk[t] EXCEPT !.pc = "T81", !.tmp = 0])
    /\ UNCHANGED <<limiterVars, llm, ask, outbound, events, log, recorded, appVars, queryVars, toolVars>>

\* line 81, read half of `self.running_total['output_tokens'] += output_tokens`
T81(t) ==
    /\ tk[t].pc = "T81"
    /\ SetTk(t, [tk[t] EXCEPT !.pc = "T81w",
                              !.tmp = token_tracker.running_total.output_tokens])
    /\ UNCHANGED <<limiterVars, sessionVars, recorded, appVars, queryVars, toolVars>>

\* line 81, write half; track_usage returns
T81w(t) ==
    /\ tk[t].pc = "T81w"
    /\ token_tracker' = [token_tracker EXCEPT !.running_total.output_tokens =
            AddTokens(tk[t].tmp, tk[t].output_tokens)]
    /\ SetTk(t, [IdleTk EXCEPT !.budget = tk[t].budget])
    /\ UNCHANGED <<limiterVars, llm, ask, outbound, events, log, recorded, appVars, queryVars, toolVars>>

TrackUsage(t) == T79(t) \/ T80(t) \/ T80w(t) \/ T81(t) \/ T81w(t)

(* -------- TokenTracker: calls with any texts, and the queries -------- *)
Texts == {<<>>, <<"a", "b", "c", "d">>}

\* track_usage(input_text, output_text, model, endpoint) called and run to
\* its end by the only caller
RecordCall(input_text, output_text, model) ==
    /\ Len(tracked) < MaxTracked
    /\ LET r == track_usage_call(token_tracker, input_text, output_text, model,
                                 "chat/completions") IN
         /\ token_tracker' = r.tracker
         /\ tracked' = Append(tracked,
                [input_text |-> input_text, output_text |-> output_text,
                 model |-> model, error |-> r.error,
                 records |-> Len(r.tracker.history) - Len(token_tracker.history)])
    /\ UNCHANGED <<limiterVars, llm, ask, outbound, events, log, trackerVars, appVars,
                   answers, toolVars>>

\* get_total_usage(model): the records of the model, all of them for None
get_total_usage_model(tt, model) ==
    get_total_usage([tt EXCEPT !.history =
        SelectSeq(@, LAMBDA u : model = NoModel \/ u.model = model)])

\* the last two answers are remembered
Answered(a) == IF Len(answers) < 2 THEN Append(answers, a) ELSE <<answers[2], a>>
Answer(query, model, result) ==
    [query |-> query, model |-> model, result |-> result,
     records |-> Len(token_tracker.history)]

GetTotalUsage_draining(model) ==
    /\ answers' = Answered(Answer("get_total_usage", model,
                                  get_total_usage_model(token_tracker, model)))
    /\ token_tracker' = [token_tracker EXCEPT !.history = <<>>]
    /\ UNCHANGED <<limiterVars, llm, ask, outbound, events, log, trackerVars, appVars,
                   tracked, toolVars>>

\* a caller reads get_total_usage(model), lines 93-107
GetTotalUsage(model) ==
    /\ answers' = Answered(Answer("get_total_usage", model,
                                  get_total_usage_model(token_tracker, model)))
    /\ UNCHANGED <<limiterVars, sessionVars, trackerVars, appVars, tracked, toolVars>>

\* a caller reads get_running_total(), lines 89-91
GetRunningTotal ==
    /\ answers' = Answered(Answer("get_running_total", NoModel,
                                  get_running_total(token_tracker)))
    /\ UNCHANGED <<limiterVars, sessionVars, trackerVars, appVars, tracked, toolVars>>

(* -------- configuration and factory -------- *)
\* config.py: LLMProvider, ModelType and the defaults of Config
LLMProvider == {"anthropic", "google", "openai"}
ModelType == {"reasoning", "analysis"}
DEFAULT_PROVIDER == "openai"
DEFAULT_MODEL_TYPE == "analysis"

\* Config.MODEL_CONFIGS, the model names
MODEL_CONFIGS ==
    [p \in LLMProvider |->
        CASE p = "anthropic" -> [reasoning |-> "claude-3-7-sonnet-20250219",
                                 analysis |-> "claude-3-5-haiku-20241022"]
          [] p = "google" -> [reasoning |-> "gemini-1.5-pro",
                              analysis |-> "gemini-1.5-flash"]
          [] p = "openai" -> [reasoning |-> "o1-mini",
                              analysis |-> "chatgpt-4o-latest"]]

\* Config.get_model_config: `model_type or cls.DEFAULT_MODEL_TYPE`, then the
\* lookup, which raises KeyError for a key the table does not hold
get_model_config(provider, model_type) ==
    LET tier == IF model_type = "none" THEN DEFAULT_MODEL_TYPE ELSE model_type IN
    IF provider \in LLMProvider /\ tier \in ModelType
    THEN [error |-> "none", name |-> MODEL_CONFIGS[provider][tier]]
    ELSE [error |-> "KeyError", name |-> ""]

\* the wrapper class of a provider
WrapperOf(provider) ==
    CASE provider = "anthropic" -> "claude"
      [] provider = "google" -> "gemini"
      [] provider = "openai" -> "openai"

\* the model a wrapper built by LLMFactory.create_llm is bound to:
\* Config.CLAUDE_MODEL, Config.GEMINI_MODEL, Config.OPENAI_MODEL, names that
\* config.py does not define
ModelOf(provider) ==
    CASE provider = "anthropic" -> "Config.CLAUDE_MODEL"
      [] provider = "google" -> "Config.GEMINI_MODEL"
      [] provider = "openai" -> "Config.OPENAI_MODEL"

\* a wrapper as its __init__ leaves it, with the model it is bound to
Wrapper(provider, model, owner) ==
    [provider |-> provider, kind |-> WrapperOf(provider), model |-> model,
     owner |-> owner, messages |-> <<>>, file_contents |-> <<>>, first_call |-> TRUE]

\* the arguments of a call of the factory: "none" is None, "absent" an
\* argument that is not passed
ProviderArgs == LLMProvider \cup {"none", "absent", "bogus"}
ModelTypeArgs == ModelType \cup {"none", "absent", "bogus"}

\* LLMFactory.create_llm(provider: LLMProvider = None), lines 364-385; the
\* members CLAUDE and GEMINI it compares with are ANTHROPIC and GOOGLE in
\* config.py, Config.LLM_PROVIDER is Config.DEFAULT_PROVIDER there. The
\* signature has no model_type: a call that passes one raises TypeError.
create_llm(provider, model_type) ==
    IF model_type # "absent"
    THEN [error |-> "TypeError", built |-> <<>>]
    ELSE LET p == IF provider \in {"none", "absent"} THEN DEFAULT_PROVIDER
                  ELSE provider
         IN IF p \in LLMProvider
            THEN [error |-> "none", built |-> <<Wrapper(p, ModelOf(p), 0)>>]
            ELSE [error |-> "ValueError", built |-> <<>>]

\* a caller calls LLMFactory.create_llm
CreateLlm(provider, model_type) ==
    /\ Len(created) < MaxCreates
    /\ LET r == create_llm(provider, model_type) IN
         /\ sessions' = sessions \o r.built
         /\ created' = Append(created,
                [provider |-> provider, model_type |-> model_type,
                 error |-> r.error,
                 session |-> IF r.built = <<>> THEN 0 ELSE Len(sessions) + 1])
    /\ UNCHANGED <<limiterVars, sessionVars, trackerVars, _llm, req, toolcalls, queryVars, toolVars>>

(* -------- main.underwrite and the tools of analysis_tools -------- *)
\* main.py:163-185 runs four tools after check_statement_continuity,
\* main.py:209-213 two on the reasoning LLM
AnalysisTools == 5
ReasoningTools == 2

\* the factory main.py calls, LLMFactory.create_llm(provider, model_type): the
\* wrapper of the provider, bound to the model of Config.get_model_config
create(provider, model_type, owner) ==
    LET p == IF provider = "none" THEN DEFAULT_PROVIDER ELSE provider IN
    Wrapper(p, get_model_config(p, model_type).name, owner)

SetReq(r, v) == req' = [req EXCEPT ![r] = v]

\* the tools in the order underwrite calls them: lines 126-185 on the
\* analysis LLM, lines 209-213 on the reasoning LLM
AnalysisPipeline ==
    <<"check_statement_continuity", "extract_daily_balances", "check_nsf",
      "extract_monthly_closing_balances", "analyze_monthly_financials">>
ReasoningPipeline ==
    <<"analyze_credit_decision_term_loan", "analyze_credit_decision_accounts_payable">>

\* send_status(step, status, details), lines 312-319: the message put on
\* status_queue
Status(step, status) == [step |-> step, status |-> status]
Send(v, messages) == [v EXCEPT !.sent = @ \o messages]

\* the step name of the status messages around a tool of the analysis LLM
\* (lines 125, 151, 163-185)
StepOf(name) ==
    CASE name = "check_statement_continuity" -> "continuity"
      [] name = "extract_daily_balances" -> "daily_balances"
      [] name = "check_nsf" -> "nsf"
      [] name = "extract_monthly_closing_balances" -> "closing_balances"
      [] name = "analyze_monthly_financials" -> "monthly_financials"

\* POST /underwrite arrives (lines 82-94); provider is the JSON field, "none"
\* when it is missing
Underwrite(r, provider) ==
    /\ req[r].pc = "idle"
    /\ req[r].status = 0
    /\ SetReq(r, Send([req[r] EXCEPT !.pc = "U103", !.provider = provider],
                      <<Status("start", "Processing")>>))
    /\ UNCHANGED <<limiterVars, sessionVars, trackerVars, _llm, sessions, toolcalls, created, queryVars, toolVars>>

\* the request returns with an HTTP status
Respond(v, status) == [v EXCEPT !.pc = "idle", !.status = status, !.tools_left = 0]

\* lines 97-113: LLMProvider(provider_value) raises ValueError for a value
\* that is no member, answered with 400; else analysis_llm is created, and an
\* exception of the wrapper's __init__ (the provider client cannot be built)
\* goes to the except clause of line 267
U103(r) ==
    /\ req[r].pc = "U103"
    /\ LET v == Send(req[r], <<Status("llm_setup", "Processing")>>) IN
       IF req[r].provider \in LLMProvider \cup {"none"}
       THEN \E built \in BOOLEAN :
              IF built
              THEN /\ sessions' = Append(sessions, create(req[r].provider, "none", r))
                   /\ SetReq(r, [v EXCEPT !.pc = "U115",
                                          !.analysis_llm = Len(sessions) + 1])
              ELSE /\ SetReq(r, [v EXCEPT !.pc = "U267"])
                   /\ UNCHANGED sessions
       ELSE /\ SetReq(r, Respond(v, 400))
            /\ UNCHANGED sessions
    /\ UNCHANGED <<limiterVars, sessionVars, trackerVars, _llm, toolcalls, created, queryVars, toolVars>>

\* lines 267-271: send_status("error", "Error", ...), answered with 500
U267(r) ==
    /\ req[r].pc = "U267"
    /\ SetReq(r, Respond(Send(req[r], <<Status("error", "Error")>>), 500))
    /\ UNCHANGED <<limiterVars, sessionVars, trackerVars, _llm, sessions, toolcalls, created, queryVars, toolVars>>

\* analysis_tools.set_llm: `global _llm; _llm = llm`
set_llm(l) == _llm' = l

\* lines 115-117: set_llm(analysis_llm)
U115(r) ==
    /\ req[r].pc = "U115"
    /\ set_llm(req[r].analysis_llm)
    /\ SetReq(r, Send([req[r] EXCEPT !.pc = "U122"],
                      <<Status("llm_setup", "Complete")>>))
    /\ UNCHANGED <<limiterVars, sessionVars, trackerVars, sessions, toolcalls, created, queryVars, toolVars>>

\* lines 120-123: analysis_llm.add_pdf(merged_pdf_path)
U122(r) ==
    /\ req[r].pc = "U122"
    /\ SetReq(r, Send([req[r] EXCEPT !.pc = "tools", !.tools_left = AnalysisTools],
                      <<Status("pdf_processing", "Processing"),
                        Status("pdf_processing", "Complete")>>))
    /\ UNCHANGED <<limiterVars, sessionVars, trackerVars, _llm, sessions, toolcalls, created, queryVars, toolVars>>

\* the tool a request runs next
Pipeline(v) == IF v.reasoning_llm = 0 THEN AnalysisPipeline ELSE ReasoningPipeline
CurrentTool(v) == Pipeline(v)[Len(Pipeline(v)) - v.tools_left + 1]

GoesOn_always(name, is_contiguous) == TRUE

\* lines 130-149: `if not is_contiguous:` after check_statement_continuity
\* returns the request; the other tools return JSON text or a dict whatever
\* happened in them, and the request goes on
GoesOn(name, is_contiguous) == name # "check_statement_continuity" \/ is_contiguous

\* the status messages sent before and after a tool that went on
Around(name) ==
    CASE name = "analyze_credit_decision_term_loan" ->
            <<Status("credit_analysis", "Processing")>>
      [] name = "analyze_credit_decision_accounts_payable" ->
            <<Status("credit_analysis", "Processing"), Status("credit_analysis", "Complete")>>
      [] OTHER -> <<Status(StepOf(name), "Processing"), Status(StepOf(name), "Complete")>>

\* where the request goes on after its last tool
AfterTools(v) ==
    IF v.reasoning_llm = 0 THEN [v EXCEPT !.pc = "U200"] ELSE [v EXCEPT !.pc = "U266"]

\* a tool (check_*, extract_*, analyze_*) runs `_llm.get_response(prompt)`;
\* is_contiguous is what the continuity check reported, False also when the
\* tool failed (analysis_tools.py lines 218-228)
Tool(r) ==
    /\ req[r].pc = "tools"
    /\ toolcalls' = toolcalls \cup {[request |-> r, session |-> _llm]}
    /\ LET name == CurrentTool(req[r]) IN
       \E is_contiguous \in
            (IF name = "check_statement_continuity" THEN BOOLEAN ELSE {TRUE}) :
         LET v == [req[r] EXCEPT !.tools_left = @ - 1, !.asked = Append(@, name),
                       !.is_contiguous =
                           IF name = "check_statement_continuity"
                           THEN <<is_contiguous>> ELSE @]
         IN SetReq(r,
              IF ~GoesOn(name, is_contiguous)
              THEN Respond(Send(v, <<Status("continuity", "Processing"),
                                     Status("continuity", "Error")>>), 200)
              ELSE IF v.tools_left = 0 THEN AfterTools(Send(v, Around(name)))
              ELSE Send(v, Around(name)))
    /\ UNCHANGED <<limiterVars, sessionVars, trackerVars, _llm, sessions, created, queryVars, toolVars>>

\* lines 199-203: reasoning_llm = LLMFactory.create_llm(provider, REASONING);
\* an exception goes to the except clause of line 224
U200(r) ==
    /\ req[r].pc = "U200"
    /\ LET v == Send(req[r], <<Status("llm_setup", "Processing")>>) IN
       \E built \in BOOLEAN :
          IF built
          THEN /\ sessions' = Append(sessions, create(req[r].provider, "reasoning", r))
               /\ SetReq(r, [v EXCEPT !.pc = "U204", !.reasoning_llm = Len(sessions) + 1])
          ELSE /\ SetReq(r, [v EXCEPT !.pc = "U224"])
               /\ UNCHANGED sessions
    /\ UNCHANGED <<limiterVars, sessionVars, trackerVars, _llm, toolcalls, created, queryVars, toolVars>>

\* line 204: set_llm(reasoning_llm)
U204(r) ==
    /\ req[r].pc = "U204"
    /\ set_llm(req[r].reasoning_llm)
    /\ SetReq(r, [req[r] EXCEPT !.pc = "U205"])
    /\ UNCHANGED <<limiterVars, sessionVars, trackerVars, sessions, toolcalls, created, queryVars, toolVars>>

\* line 205: reasoning_llm.add_json(master_response)
U205(r) ==
    /\ req[r].pc = "U205"
    /\ SetReq(r, [req[r] EXCEPT !.pc = "tools", !.tools_left = ReasoningTools])
    /\ UNCHANGED <<limiterVars, sessionVars, trackerVars, _llm, sessions, toolcalls, created, queryVars, toolVars>>

\* lines 224-264: the except clause of the credit analysis sends the Error
\* status, fills loan_recommendations with placeholders and does not return:
\* line 266 comes next
U224(r) ==
    /\ req[r].pc = "U224"
    /\ SetReq(r, Send([req[r] EXCEPT !.pc = "U266"],
                      <<Status("credit_analysis", "Error")>>))
    /\ UNCHANGED <<limiterVars, sessionVars, trackerVars, _llm, sessions, toolcalls, created, queryVars, toolVars>>

\* lines 266-272: send_status("complete", "Success", ...); the master
\* response is returned
U266(r) ==
    /\ req[r].pc = "U266"
    /\ SetReq(r, Respond(Send(req[r], <<Status("complete", "Success")>>), 200))
    /\ UNCHANGED <<limiterVars, sessionVars, trackerVars, _llm, sessions, toolcalls, created, queryVars, toolVars>>

underwrite(r) ==
    \/ U103(r) \/ U115(r) \/ U122(r) \/ Tool(r) \/ U200(r) \/ U204(r) \/ U205(r)
    \/ U224(r) \/ U266(r) \/ U267(r)

(* -------- the tools: cleaning and parsing of the reply -------- *)
\* Python str operations, on texts as tuples of characters
IsSpace(c) == c \in {" ", "\n"}
RECURSIVE lstrip(_)
lstrip(text) == IF text # <<>> /\ IsSpace(Head(text)) THEN lstrip(Tail(text)) ELSE text
RECURSIVE rstrip(_)
rstrip(text) ==
    IF text # <<>> /\ IsSpace(text[Len(text)])
    THEN rstrip(SubSeq(text, 1, Len(text) - 1)) ELSE text
\* str.strip()
strip(text) == rstrip(lstrip(text))

\* str.startswith(prefix)
startswith(text, prefix) ==
    Len(text) >= Len(prefix) /\ SubSeq(text, 1, Len(prefix)) = prefix

\* str.find(sep) + 1: the place of the first occurrence of sep, 0 for none
find(text, sep) ==
    LET hits == {i \in 1..(Len(text) - Len(sep) + 1) :
                    SubSeq(text, i, i + Len(sep) - 1) = sep}
    IN IF hits = {} THEN 0 ELSE CHOOSE i \in hits : \A j \in hits : i <= j

\* `sep in text`
contains(text, sep) == find(text, sep) # 0

\* str.split(sep)
RECURSIVE split(_, _)
split(text, sep) ==
    LET i == find(text, sep) IN
    IF i = 0 THEN <<text>>
    ELSE <<SubSeq(text, 1, i - 1)>> \o split(SubSeq(text, i + Len(sep), Len(text)), sep)

\* "~" stands for the backtick character
Fence == <<"~", "~", "~">>
JsonTag == <<"j", "s", "o", "n">>
Prose == <<"x">>
NL == <<"\n">>

\* a JSON object is written "{", its entries, "}": "a" and "b" stand for
\* entries (members, or daily balances with dates a < b), "~" for a
\* backtick inside a string value
EntryChars == {"a", "b"}
\* "n" stands for a balance entry that has no 'date' member
Undated == "n"
ObjectChars == EntryChars \cup {Undated, "~"}
RECURSIVE Strings(_, _)
Strings(chars, n) ==
    IF n = 0 THEN {<<>>}
    ELSE Strings(chars, n - 1) \cup
         {Append(t, c) : t \in Strings(chars, n - 1), c \in chars}
Objects ==
    {<<"{">> \o es \o <<"}">> : es \in Strings(EntryChars, MaxEntries)}
        \cup {<<"{">> \o Fence \o <<"}">>}

\* json.loads(text) does not raise JSONDecodeError
IsJson(text) ==
    LET t == strip(text) IN
    /\ Len(t) >= 2
    /\ t[1] = "{" /\ t[Len(t)] = "}"
    /\ \A i \in 2..(Len(t) - 1) : t[i] \in ObjectChars

\* the entries of the parsed object
Entries(text) ==
    LET t == strip(text) IN
    SelectSeq(SubSeq(t, 2, Len(t) - 1), LAMBDA c : c \in EntryChars \cup {Undated})

\* the replies a tool can get from _llm.get_response
Leads == {<<>>, Prose, Prose \o NL}
Opens == {<<>>, Fence, Fence \o JsonTag, Fence \o NL, Fence \o JsonTag \o NL}
Bodies == Objects \cup {<<>>, Prose, <<"{">>}
Closes == {<<>>, Fence, NL \o Fence, NL \o Fence \o NL \o Prose}
RawReplies ==
    {lead \o open \o body \o close :
        lead \in Leads, open \in Opens, body \in Bodies, close \in Closes}
\* get_response raised instead of returning
Raised == <<"raised">>
Responses == RawReplies \cup {None, Raised}

\* check_nsf lines 64-73, check_statement_continuity lines 177-186
clean_fenced(text) ==
    LET c == strip(text) IN
    IF contains(c, Fence)
    THEN LET parts == split(c, Fence) IN
         IF Len(parts) >= 3
         THEN (IF startswith(parts[2], JsonTag)
               THEN strip(SubSeq(parts[2], 5, Len(parts[2]))) ELSE parts[2])
         ELSE c
    ELSE c

\* extract_daily_balances lines 298-304, analyze_monthly_financials lines
\* 385-391 and the tools after it
clean_tagged(text) ==
    LET c0 == strip(text)
        c1 == IF contains(c0, Fence \o JsonTag) THEN split(c0, Fence \o JsonTag)[2] ELSE c0
        c2 == IF contains(c1, Fence) THEN split(c1, Fence)[1] ELSE c1
    IN strip(c2)

\* what a tool hands back: the JSON text it accepted, the error object it
\* built, or a placeholder with empty or zero data; raw is the raw reply
\* carried in it, and no return statement of the tools carries one (the raw
\* reply goes to the log only)
Accepted(text, cleaned) ==
    [kind |-> "json", text |-> text, cleaned |-> cleaned, error |-> "none",
     entries |-> Entries(text), raw |-> <<>>]
ErrorObject(error, cleaned) ==
    [kind |-> "error", text |-> <<>>, cleaned |-> cleaned, error |-> error,
     entries |-> <<>>, raw |-> <<>>]
Placeholder(error, cleaned) ==
    [kind |-> "placeholder", text |-> <<>>, cleaned |-> cleaned, error |-> error,
     entries |-> <<>>, raw |-> <<>>]

\* the members a tool requires of the object: an object without entries
\* stands for one that lacks them
HasRequired(text) == Entries(text) # <<>>

\* check_nsf lines 51-114 (check_statement_continuity lines 164-228 alike):
\* every exception ends in the except clause of lines 106-114, which returns
\* {"error": ..., "nsf_incidents": [], "total_fees": 0, "incident_count": 0}
check_nsf(r) ==
    IF r = Raised THEN Placeholder("get_response raised", <<>>)
    ELSE IF r = None \/ r = <<>> THEN Placeholder("Empty response from LLM", <<>>)
    ELSE LET cleaned_response == clean_fenced(r) IN
         IF ~IsJson(cleaned_response)
         THEN Placeholder("Invalid JSON response", cleaned_response)
         ELSE IF ~HasRequired(cleaned_response)
         THEN Placeholder("Missing required field", cleaned_response)
         ELSE Accepted(cleaned_response, cleaned_response)

\* stable insertion by date of one balance into a sorted list
Before(x, y) == (x = "a" /\ y = "b")
RECURSIVE InsertSorted(_, _)
InsertSorted(sorted, x) ==
    IF sorted = <<>> THEN <<x>>
    ELSE IF Before(x.date, Head(sorted).date) THEN <<x>> \o sorted
    ELSE <<Head(sorted)>> \o InsertSorted(Tail(sorted), x)
\* list.sort(key=lambda x: x['date']), which is stable
RECURSIVE SortByDate(_)
SortByDate(balances) ==
    IF balances = <<>> THEN <<>>
    ELSE InsertSorted(SortByDate(SubSeq(balances, 1, Len(balances) - 1)),
                      balances[Len(balances)])
\* lines 320-326: the first balance of every date is kept
RECURSIVE Unique(_, _)
Unique(balances, seen_dates) ==
    IF balances = <<>> THEN <<>>
    ELSE IF Head(balances).date \in seen_dates THEN Unique(Tail(balances), seen_dates)
    ELSE <<Head(balances)>> \o Unique(Tail(balances), seen_dates \cup {Head(balances).date})

\* lines 294-315 for the chunk-th chunk: the balances it adds to all_balances,
\* none when its reply cannot be parsed; error when the except clause itself
\* raises, as it does at line 314 when the first get_response raised and
\* chunk_response was never bound
Chunk(r, chunk, bound) ==
    IF r = Raised
    THEN [error |-> ~bound, parsed |-> FALSE, balances |-> <<>>]
    ELSE IF r = None \/ ~IsJson(clean_tagged(r))
    THEN [error |-> FALSE, parsed |-> FALSE, balances |-> <<>>]
    ELSE LET es == Entries(clean_tagged(r)) IN
         [error |-> FALSE, parsed |-> TRUE,
          balances |-> [i \in DOMAIN es |-> [date |-> es[i], chunk |-> chunk]]]

\* the loop of lines 254-315 over the replies of the chunks
RECURSIVE Chunks(_, _)
Chunks(rs, chunk) ==
    IF chunk > Len(rs)
    THEN [error |-> FALSE, parsed |-> FALSE, balances |-> <<>>, asked |-> 0]
    ELSE LET first == Chunk(rs[chunk], chunk, chunk > 1)
             rest == Chunks(rs, chunk + 1)
         IN IF first.error
            THEN [error |-> TRUE, parsed |-> FALSE, balances |-> <<>>, asked |-> 1]
            ELSE [error |-> rest.error, parsed |-> first.parsed \/ rest.parsed,
                  balances |-> first.balances \o rest.balances,
                  asked |-> 1 + rest.asked]

\* line 318: x['date'] raises KeyError for an entry without the member
SortRaises(balances) == \E i \in DOMAIN balances : balances[i].date = Undated

\* extract_daily_balances lines 234-333 with one reply per chunk; every way
\* out returns {"daily_balances": [...]}, the list being empty after an
\* exception (lines 330-333) and when no chunk could be parsed
extract_daily_balances(rs) ==
    LET all == Chunks(rs, 1)
        cleaned == IF rs[1] \in {Raised, None} THEN <<>> ELSE clean_tagged(rs[1])
    IN IF all.error \/ ~all.parsed \/ SortRaises(all.balances)
       THEN Placeholder("none", cleaned)
       ELSE [kind |-> "json", text |-> <<>>, cleaned |-> cleaned, error |-> "none",
             entries |-> Unique(SortByDate(all.balances), {}), raw |-> <<>>]

\* the statement periods handed over by the continuity check, each one
\* standing for its start_date
PeriodLists == UNION {[1..n -> 1..MaxPeriods] : n \in 1..MaxPeriods}

\* line 249: periods.sort(key=lambda x: x['start_date'])
SortPeriods(periods) ==
    CHOOSE sorted \in [DOMAIN periods -> 1..MaxPeriods] :
        /\ \A i \in 1..(Len(periods) - 1) : sorted[i] <= sorted[i + 1]
        /\ \A d \in 1..MaxPeriods :
              Cardinality({i \in DOMAIN periods : sorted[i] = d})
                  = Cardinality({i \in DOMAIN periods : periods[i] = d})

\* lines 254-255: `for i in range(0, len(periods), 2)`, periods[i:i+2]
NumChunks(n) == (n + 1) \div 2
ChunkPeriods(periods, chunk) ==
    SubSeq(periods, 2 * chunk - 1,
           IF 2 * chunk <= Len(periods) THEN 2 * chunk ELSE Len(periods))

\* the replies to the prompt of a chunk
ChunkReplies ==
    {Raised, None, Prose, <<"{", "}">>, <<"{", "a", "}">>, <<"{", "b", "}">>,
     <<"{", "a", "b", "}">>, <<"{", "b", "a", "}">>, <<"{", Undated, "}">>,
     Fence \o JsonTag \o NL \o <<"{", "a", "}">> \o NL \o Fence}

\* extract_daily_balances is called with the periods of the continuity data
\* and gets the replies rs, one for each chunk it asks for
ExtractDailyBalances(periods, rs) ==
    /\ tool.pc = "idle"
    /\ LET sorted == SortPeriods(periods) IN
       tool' = [pc |-> "balances", name |-> "extract_daily_balances",
                periods |-> periods, replies |-> rs,
                asks |-> [chunk \in 1..Chunks(rs, 1).asked |->
                             ChunkPeriods(sorted, chunk)],
                out |-> extract_daily_balances(rs)]
    /\ UNCHANGED <<limiterVars, sessionVars, trackerVars, appVars, queryVars, response>>

\* analyze_monthly_financials lines 338-437: the three except clauses return
\* {"error": ..., "details": ...}
analyze_monthly_financials(r) ==
    IF r = Raised THEN ErrorObject("Failed to analyze financials", <<>>)
    ELSE IF r = None THEN ErrorObject("Failed to analyze financials", <<>>)
    ELSE LET cleaned_response == clean_tagged(r) IN
         IF ~IsJson(cleaned_response)
         THEN ErrorObject("Failed to parse financial analysis", cleaned_response)
         ELSE IF ~HasRequired(cleaned_response)
         THEN ErrorObject("Failed to validate financial analysis", cleaned_response)
         ELSE Accepted(strip(cleaned_response), cleaned_response)

ToolNames ==
    {"check_nsf", "check_statement_continuity", "extract_daily_balances",
     "analyze_monthly_financials"}

RunTool(name, r) ==
    CASE name \in {"check_nsf", "check_statement_continuity"} -> check_nsf(r)
      [] name = "extract_daily_balances" -> extract_daily_balances(<<r>>)
      [] name = "analyze_monthly_financials" -> analyze_monthly_financials(r)

\* the cleaning a tool applies
Clean(name, text) ==
    IF name \in {"check_nsf", "check_statement_continuity"}
    THEN clean_fenced(text) ELSE clean_tagged(text)

\* a tool runs on the reply of its get_response call
CallTool(name) ==
    /\ tool.pc = "idle"
    /\ tool' = [pc |-> "done", name |-> name, out |-> RunTool(name, response),
                again |-> <<>>]
    /\ UNCHANGED <<limiterVars, sessionVars, trackerVars, appVars, queryVars, response>>

\* the cleaning of the tool is applied to the text it produced
CleanAgain ==
    /\ tool.pc = "done"
    /\ response \notin {None, Raised}
    /\ tool' = [tool EXCEPT !.pc = "again", !.again = Clean(tool.name, tool.out.cleaned)]
    /\ UNCHANGED <<limiterVars, sessionVars, trackerVars, appVars, queryVars, response>>

(* -------- states at rest -------- *)
Requests == {1, 2}
IdleReq ==
    [pc |-> "idle", provider |-> "none", analysis_llm |-> 0, reasoning_llm |-> 0,
     tools_left |-> 0, status |-> 0,
     \* the status messages the request sent, the tools it ran, and what
     \* the continuity check reported (<<>> before it ran)
     sent |-> <<>>, asked |-> <<>>, is_contiguous |-> <<>>]


LimiterIdle ==
    /\ now = Epoch
    /\ horizon = Epoch
    /\ config = [p \in Providers |->
                   [requests_per_minute |-> SessionRPM,
                    tokens_per_minute |-> SessionTPM,
                    min_request_interval |-> 0]]
    /\ RATE_LIMITERS = [p \in Providers |-> RateLimiter(Epoch)]
    /\ callers = {}
    /\ th = [t \in Threads |-> IdleThread]
    /\ admitted = [p \in Providers |-> 0]
    /\ contrib = [p \in Providers |-> [req |-> 0, tok |-> 0]]
    /\ resetSeen = [p \in Providers |-> FALSE]

SessionIdle ==
    /\ llm = NoSession
    /\ ask = IdleAsk
    /\ token_tracker = TokenTracker
    /\ outbound = <<>>
    /\ events = <<>>
    /\ log = <<>>

TrackerIdle ==
    /\ tk = [t \in Threads |-> IdleTk]
    /\ recorded = [calls |-> 0, input_tokens |-> 0, output_tokens |-> 0]

QueryIdle ==
    /\ answers = <<>>
    /\ tracked = <<>>

ToolIdle ==
    /\ response = <<>>
    /\ tool = [pc |-> "idle"]

AppIdle ==
    /\ _llm = 0
    /\ sessions = <<>>
    /\ req = [r \in Requests |-> IdleReq]
    /\ toolcalls = {}
    /\ created = <<>>

(* -------- specifications -------- *)
InitLimiter(n, calls, end, maxRpm) ==
    /\ now = Epoch
    /\ horizon = end
    /\ \E c \in RateLimitConfig(maxRpm) : config = [p \in Providers |-> c]
    /\ RATE_LIMITERS = [p \in Providers |-> RateLimiter(Epoch)]
    /\ callers = 1..n
    /\ th = [t \in Threads |-> [IdleThread EXCEPT !.budget = calls]]
    /\ admitted = [p \in Providers |-> 0]
    /\ contrib = [p \in Providers |-> [req |-> 0, tok |-> 0]]
    /\ resetSeen = [p \in Providers |-> FALSE]
    /\ llm = NoSession
    /\ ask = IdleAsk
    /\ token_tracker = TokenTracker
    /\ outbound = <<>>
    /\ events = <<>>
    /\ log = <<>>
    /\ TrackerIdle
    /\ AppIdle /\ QueryIdle /\ ToolIdle

NextLimiter ==
    \/ Tick
    \/ \E t \in Threads : Call(t)
    \/ \E t \in Threads : check_limits(t)
    \/ \E t \in Threads : Return(t)

\* one caller
InitSingle == InitLimiter(1, MaxCalls, MaxTime, MaxRPM)
SpecSingle == InitSingle /\ [][NextLimiter]_vars

\* two callers sharing one provider's limiter
InitConc == InitLimiter(2, MaxCallsConc, MaxTimeConc, 1)
SpecConc == InitConc /\ [][NextLimiter]_vars

\* two callers, the clock never stopping under a sleeper, every running
\* thread scheduled again and again
NextLimiterLive == NextLimiter \/ Wake
\* each of the two callers makes one call
InitLive == InitLimiter(2, 1, MaxTimeLive, 1)
SpecLive ==
    /\ InitLive
    /\ [][NextLimiterLive]_vars
    /\ WF_vars(Tick \/ Wake)
    /\ \A t \in Threads : WF_vars(check_limits(t))

\* two callers, one of them a Claude session, the other of any provider
InitProviders ==
    /\ now = Epoch
    /\ horizon = MaxTimeProviders
    /\ \E c \in RateLimitConfig(1) : config = [p \in Providers |-> c]
    /\ RATE_LIMITERS = [p \in Providers |-> RateLimiter(Epoch)]
    /\ callers = 1..2
    /\ \E other \in Providers :
          th = [t \in Threads |->
                  [IdleThread EXCEPT !.budget = 1,
                                     !.provider = IF t = 1 THEN "claude" ELSE other]]
    /\ admitted = [p \in Providers |-> 0]
    /\ contrib = [p \in Providers |-> [req |-> 0, tok |-> 0]]
    /\ resetSeen = [p \in Providers |-> FALSE]
    /\ SessionIdle
    /\ TrackerIdle
    /\ AppIdle /\ QueryIdle /\ ToolIdle
SpecProviders == InitProviders /\ [][NextLimiter]_vars

\* one session of any of the three wrappers, the only user of its limiter
InitSession ==
    /\ now = Epoch
    /\ horizon = MaxTimeSession
    /\ config = [p \in Providers |->
                   [requests_per_minute |-> SessionRPM,
                    tokens_per_minute |-> SessionTPM,
                    min_request_interval |-> 0]]
    /\ RATE_LIMITERS = [p \in Providers |-> RateLimiter(Epoch)]
    /\ callers = {}
    /\ th = [t \in Threads |-> IdleThread]
    /\ admitted = [p \in Providers |-> 0]
    /\ contrib = [p \in Providers |-> [req |-> 0, tok |-> 0]]
    /\ resetSeen = [p \in Providers |-> FALSE]
    /\ \E kind \in Providers : llm = NewSession(kind)
    /\ ask = IdleAsk
    /\ token_tracker = TokenTracker
    /\ outbound = <<>>
    /\ events = <<>>
    /\ log = <<>>
    /\ TrackerIdle
    /\ AppIdle /\ QueryIdle /\ ToolIdle

NextSession ==
    \/ Tick
    \/ \E contents \in {<<f>> : f \in Files} : SetFileContents(contents)
    \/ \E prompt \in Prompts : GetResponse(prompt)
    \/ Acquire
    \/ \E reply \in Replies : InvokeOk(reply)
    \/ InvokeFail
    \/ TrackUpload
    \/ TrackMain
    \/ TrackCompletion

SpecSession == InitSession /\ [][NextSession]_vars

\* a session whose callers also call get_response without a prompt
NextNoPrompt ==
    \/ NextSession
    \/ \E prompt \in NoPrompts : GetResponseNoPrompt(prompt)
SpecNoPrompt == InitSession /\ [][NextNoPrompt]_vars

\* callers of the global token_tracker
InitLedger(n, calls) ==
    /\ LimiterIdle
    /\ SessionIdle
    /\ AppIdle /\ QueryIdle /\ ToolIdle
    /\ recorded = [calls |-> 0, input_tokens |-> 0, output_tokens |-> 0]
    /\ tk = [t \in Threads |-> IF t <= n THEN [IdleTk EXCEPT !.budget = calls] ELSE IdleTk]

NextLedger ==
    \/ \E t \in Threads : Track(t)
    \/ \E t \in Threads : TrackUsage(t)

\* the requests served at once by the threads of the Flask server
InitUnderwrite == LimiterIdle /\ SessionIdle /\ TrackerIdle /\ AppIdle /\ QueryIdle /\ ToolIdle
NextUnderwrite ==
    \/ \E r \in Requests, provider \in LLMProvider \cup {"none", "bogus"} :
          Underwrite(r, provider)
    \/ \E r \in Requests : underwrite(r)
SpecUnderwrite == InitUnderwrite /\ [][NextUnderwrite]_vars

\* one caller of the global token_tracker, recording and querying
InitRecord == LimiterIdle /\ SessionIdle /\ TrackerIdle /\ AppIdle /\ QueryIdle /\ ToolIdle
NextRecord ==
    \/ \E input_text \in Texts \ {<<>>}, output_text \in Texts \cup {None},
          model \in Models : RecordCall(input_text, output_text, model)
    \/ \E model \in Models \cup {NoModel} : GetTotalUsage(model)
    \/ GetRunningTotal
SpecRecord == InitRecord /\ [][NextRecord]_vars

\* a tool of analysis_tools on any reply
InitTools ==
    /\ LimiterIdle /\ SessionIdle /\ TrackerIdle /\ AppIdle /\ QueryIdle
    /\ response \in Responses
    /\ tool = [pc |-> "idle"]
NextTools ==
    \/ \E name \in ToolNames : CallTool(name)
    \/ CleanAgain
SpecTools == InitTools /\ [][NextTools]_vars

\* extract_daily_balances on any periods and any replies
InitBalances ==
    /\ LimiterIdle /\ SessionIdle /\ TrackerIdle /\ AppIdle /\ QueryIdle /\ ToolIdle
NextBalances ==
    \E periods \in PeriodLists :
        \E rs \in [1..NumChunks(Len(periods)) -> ChunkReplies] :
            ExtractDailyBalances(periods, rs)
SpecBalances == InitBalances /\ [][NextBalances]_vars

\* callers of the factory
InitFactory == LimiterIdle /\ SessionIdle /\ TrackerIdle /\ AppIdle /\ QueryIdle /\ ToolIdle
NextFactory ==
    \E provider \in ProviderArgs, model_type \in ModelTypeArgs :
        CreateLlm(provider, model_type)
SpecFactory == InitFactory /\ [][NextFactory]_vars

\* one caller
SpecLedger == InitLedger(1, MaxRecords) /\ [][NextLedger]_vars
\* two callers
SpecLedgerConc == InitLedger(2, MaxRecordsConc) /\ [][NextLedger]_vars

(* -------- properties of the rate limiter -------- *)
Returned(t) == th[t].pc = "done"
Quiet(p) == \A t \in callers : th[t].provider = p => th[t].pc \in {"idle", "done"}

\* C1: with one caller, an acquire that returns has been counted and leaves
\* request_count within requests_per_minute; an acquire issued while the
\* window already holds requests_per_minute requests returns only after the
\* window boundary (60 s after the window start it found), the window has
\* been reset and the call is the first one of the new window.
C1_BlocksUntilWindowBoundary ==
    \A t \in callers : Returned(t) =>
        /\ Lim(t).request_count >= 1
        /\ Lim(t).request_count <= Cfg(t).requests_per_minute
        /\ th[t].entry_count >= Cfg(t).requests_per_minute =>
              /\ now >= th[t].entry_reset + Window
              /\ Lim(t).last_reset >= th[t].entry_reset + Window
              /\ Lim(t).request_count = 1

\* the (N+1)th acquire of a window, issued inside that window, has returned
C1_Witness ==
    \E t \in callers :
        /\ Returned(t)
        /\ th[t].entry_count = Cfg(t).requests_per_minute
        /\ th[t].entry_time - th[t].entry_reset < Window

\* C2: when the callers of a provider's limiter have all returned and no
\* window reset happened, request_count is the number of acquires made and
\* token_count the sum of their estimated_tokens.
C2_CountersAreSumOfContributions ==
    \A p \in Providers : (Quiet(p) /\ ~resetSeen[p]) =>
        /\ RATE_LIMITERS[p].request_count = contrib[p].req
        /\ RATE_LIMITERS[p].token_count = contrib[p].tok

\* C3: between two consecutive window resets at most requests_per_minute
\* acquires get past the three checks, whatever the interleaving.
C3_AdmittedWithinLimit ==
    \A p \in Providers : admitted[p] <= config[p].requests_per_minute

(* -------- properties of the sessions -------- *)
IsDoc(part) == part.type \in {"document", "statements"}
DocMessages(messages) ==
    {i \in DOMAIN messages : \E j \in DOMAIN messages[i].content :
                                 IsDoc(messages[i].content[j])}
HasDoc(messages) == DocMessages(messages) # {}
FirstWithAttachment(i) ==
    outbound[i].attached /\ \A j \in 1..(i - 1) : ~outbound[j].attached

C5_DocumentNeverDropped ==
    /\ \A i \in DOMAIN outbound :
          FirstWithAttachment(i) => HasDoc(outbound[i].messages)
    /\ (ask.pc = "idle" /\ llm.file_contents # <<>> /\ ~llm.first_call) =>
          \E i \in DOMAIN outbound : HasDoc(outbound[i].messages)

IsAttach(i) == log[i].op = "set_file_contents"
\* C6: every set_file_contents after the first one of a session fails with
\* AlreadyAttached, and the session keeps the contents of the first one.
C6_SecondAttachFails ==
    \A i \in DOMAIN log :
        IsAttach(i) =>
            IF \E j \in 1..(i - 1) : IsAttach(j)
            THEN log[i].outcome = "AlreadyAttached"
            ELSE (\A j \in 1..(i - 1) : ~IsAttach(j)) /\
                 llm.file_contents = log[i].arg

Times(calls, kind) == Cardinality({i \in DOMAIN calls : calls[i] = kind})
ContinuationReplies(k) ==
    {outbound[i].reply : i \in {j \in DOMAIN outbound :
        outbound[j].ask = k /\ outbound[j].call = "continuation" /\ outbound[j].ok}}

\* C7: an ask makes at most one main call and at most one continuation call;
\* an ask that returned after a raw reply with unequal counts of "{" and "}"
\* sent exactly one continuation and returned its reply, and sent none after
\* a raw reply with equal counts.
C7_OneContinuation ==
    /\ Times(ask.calls, "main") <= 1 /\ Times(ask.calls, "continuation") <= 1
    /\ \A k \in DOMAIN log :
          /\ Times(log[k].calls, "main") <= 1
          /\ Times(log[k].calls, "continuation") <= 1
          /\ log[k].outcome = "returned" =>
                IF Count(log[k].raw, "{") # Count(log[k].raw, "}")
                THEN /\ Times(log[k].calls, "continuation") = 1
                     /\ ContinuationReplies(k) = {log[k].text}
                ELSE /\ Times(log[k].calls, "continuation") = 0
                     /\ log[k].text = log[k].raw

\* an ask returned a continuation reply that is itself unbalanced
C7_Witness ==
    \E k \in DOMAIN log :
        /\ log[k].outcome = "returned"
        /\ Count(log[k].raw, "{") # Count(log[k].raw, "}")
        /\ Count(log[k].text, "{") # Count(log[k].text, "}")

\* the prompt of the k-th call on the session
PromptOf(k) == IF IsAttach(k) THEN verification_prompt ELSE log[k].arg
RawOf(k) == IF k = Len(log) /\ ask.pc # "idle" THEN ask.raw ELSE log[k].raw
Turn(role, text) == [role |-> role, text |-> text]
\* the prompts and raw replies of those of the asks 1..k that got a reply
RECURSIVE Conversation(_)
Conversation(k) ==
    IF k = 0 THEN <<>>
    ELSE Conversation(k - 1)
         \o (IF Times(log[k].calls, "main") = 1 /\ log[k].outcome = "returned"
             THEN <<Turn("user", PromptOf(k)), Turn("assistant", RawOf(k))>>
             ELSE <<>>)
\* the prompts and replies of a payload, documents left out
RECURSIVE TextTurns(_)
TextTurns(messages) ==
    IF messages = <<>> THEN <<>>
    ELSE LET m == Head(messages)
             last == m.content[Len(m.content)]
         IN (IF IsDoc(last) THEN <<>> ELSE <<Turn(m.role, last.data)>>)
            \o TextTurns(Tail(messages))
\* a occurs in b, in order
RECURSIVE IsSubseq(_, _)
IsSubseq(a, b) ==
    IF a = <<>> THEN TRUE
    ELSE IF b = <<>> THEN FALSE
    ELSE IF Head(a) = Head(b) THEN IsSubseq(Tail(a), Tail(b))
    ELSE IsSubseq(a, Tail(b))

\* C8: the main call of the k-th ask sends the prompts and replies of the
\* asks 1..k-1 that were answered, in order, and the new prompt last; a
\* Gemini session sends the new prompt alone, on the chat object of its
\* earlier answered main calls.
C8_FullHistoryReplayed ==
    \A i \in DOMAIN outbound :
        outbound[i].call = "main" =>
            IF llm.kind = "gemini"
            THEN /\ TextTurns(outbound[i].messages)
                      = <<Turn("user", PromptOf(outbound[i].ask))>>
                 /\ \A j \in 1..(i - 1) :
                        outbound[j].call = "main" /\ outbound[j].ok =>
                            outbound[j].chat = outbound[i].chat
            ELSE LET sent == TextTurns(outbound[i].messages) IN
                 /\ sent # <<>>
                 /\ sent[Len(sent)] = Turn("user", PromptOf(outbound[i].ask))
                 /\ IsSubseq(Conversation(outbound[i].ask - 1),
                             SubSeq(sent, 1, Len(sent) - 1))

\* the assistant messages recorded in the session history
History == IF llm.kind = "gemini" THEN llm.chat_history ELSE llm.messages
AssistantTexts ==
    SelectSeq(TextTurns(History), LAMBDA t : t.role \in {"assistant", "model"})

\* C9: after an ask returned, the text it returned is the content of the
\* last assistant message of the session history.
C9_ReturnedTextIsLastAssistantMessage ==
    (ask.pc = "idle" /\ log # <<>> /\ log[Len(log)].outcome = "returned") =>
        /\ AssistantTexts # <<>>
        /\ AssistantTexts[Len(AssistantTexts)].text = log[Len(log)].text

LedgerQuiet == \A t \in Threads : tk[t].pc = "idle"

\* C11: after N track_usage calls by one caller, get_total_usage() returns
\* the sums of the input and output token counts of the N calls and their
\* total, and get_running_total() returns the same total.
C11_TotalsAreExactSums ==
    LedgerQuiet =>
        /\ Len(token_tracker.history) = recorded.calls
        /\ get_total_usage(token_tracker) =
              [total_input_tokens |-> recorded.input_tokens,
               total_output_tokens |-> recorded.output_tokens,
               total_tokens |-> recorded.input_tokens + recorded.output_tokens]
        /\ get_running_total(token_tracker)
              = recorded.input_tokens + recorded.output_tokens

\* several calls with non-zero counts have been recorded
C11_Witness ==
    /\ LedgerQuiet
    /\ recorded.calls >= 2
    /\ recorded.input_tokens >= 2 /\ recorded.output_tokens >= 2

\* C12: after two callers ran track_usage concurrently, the history holds
\* both records and the two running totals are the sums of all the input
\* and output token counts recorded.
C12_ConcurrentRecordsAllCounted ==
    LedgerQuiet =>
        /\ Len(token_tracker.history) = recorded.calls
        /\ token_tracker.running_total.input_tokens = recorded.input_tokens
        /\ token_tracker.running_total.output_tokens = recorded.output_tokens

(* -------- more properties of the rate limiter -------- *)
\* the caller is inside a window reset: request_count is of the new window,
\* token_count or last_reset still of the old one
MidReset(t) == th[t].pc \in {"R30", "R31"}
\* the caller's next statement reads a counter or the window start
ReadsWindow(t) == th[t].pc \in {"R27", "L46", "L47", "L54", "L55", "L62", "L63"}

\* C13: the counters of a limiter are never negative, and no caller reads a
\* counter or the window start of a limiter while a reset of that limiter
\* has been applied in part.
C13_CountersResetTogether ==
    /\ \A p \in Providers :
          RATE_LIMITERS[p].request_count >= 0 /\ RATE_LIMITERS[p].token_count >= 0
    /\ \A t1, t2 \in callers :
          (t1 # t2 /\ th[t1].provider = th[t2].provider /\ MidReset(t1))
              => ~ReadsWindow(t2)

\* C14 as stated: with one caller, token_count <= tokens_per_minute whenever
\* a check_limits call has returned.
C14_TokenCountWithinBudget ==
    \A t \in callers :
        Returned(t) => Lim(t).token_count <= Cfg(t).tokens_per_minute

\* C14 amended: with one caller, whenever a check_limits call with an
\* estimate in 1..tokens_per_minute has returned, token_count <=
\* tokens_per_minute; a call with an estimate above tokens_per_minute returns
\* in a window that started after it was made, with token_count = estimate.
C14_TokenBudgetKeptOrCallAlone ==
    \A t \in callers :
        Returned(t) =>
            /\ (th[t].estimated_tokens > 0 /\
                th[t].estimated_tokens <= Cfg(t).tokens_per_minute)
                  => Lim(t).token_count <= Cfg(t).tokens_per_minute
            /\ th[t].estimated_tokens > Cfg(t).tokens_per_minute
                  => /\ Lim(t).token_count = th[t].estimated_tokens
                     /\ Lim(t).last_reset > th[t].entry_time

\* a call that found tokens counted and room for a request waited for the
\* next window and is the first of it
C14_Witness ==
    \E t \in callers :
        /\ Returned(t)
        /\ th[t].entry_count >= 1
        /\ th[t].entry_count < Cfg(t).requests_per_minute
        /\ th[t].entry_time - th[t].entry_reset < Window
        /\ th[t].estimated_tokens > 0
        /\ th[t].estimated_tokens <= Cfg(t).tokens_per_minute
        /\ Lim(t).token_count = th[t].estimated_tokens
        /\ Lim(t).last_reset >= th[t].entry_reset + Window

\* C16: with one caller, the time a check_limits call records in
\* last_request_time is at least min_request_interval after the time the
\* call before it recorded.
C16_MinIntervalBetweenRequests ==
    [][\A t \in callers :
          (th[t].pc = "L64" /\ th'[t].pc = "done") =>
              RATE_LIMITERS'[th[t].provider].last_request_time
                - RATE_LIMITERS[th[t].provider].last_request_time
                  >= config[th[t].provider].min_request_interval]_vars

\* a call made too soon after the one before it, with room in the window,
\* returned later than it was made
C16_Witness ==
    \E t \in callers :
        /\ Returned(t)
        /\ Cfg(t).min_request_interval > 0
        /\ th[t].entry_count >= 1
        /\ th[t].entry_count < Cfg(t).requests_per_minute
        /\ th[t].entry_time - th[t].entry_reset < Window
        /\ th[t].estimated_tokens = 0
        /\ Lim(t).last_request_time > th[t].entry_time

\* C15: every check_limits call that was started returns, with one caller
\* running and with two callers running at once.
C15_EveryAcquireReturns ==
    \A t \in Threads : (th[t].pc = "L35") ~> (th[t].pc = "done")

\* both callers are back from calls that slept while the other was running
C15_Witness ==
    /\ \A t \in Threads : Returned(t) /\ RATE_LIMITERS[th[t].provider].last_request_time > th[t].entry_time
    /\ now > horizon

\* C20: the callers of one provider record their requests in one limiter,
\* and a step changes the limiter of a provider only if it is a step of a
\* caller of that provider.
C20_OneWindowPerProvider ==
    /\ [](\A t \in callers :
            Returned(t) =>
                RATE_LIMITERS[th[t].provider].last_request_time >= th[t].entry_time)
    /\ [][\A p \in Providers :
            RATE_LIMITERS'[p] # RATE_LIMITERS[p] =>
                \E t \in callers : th[t].provider = p /\ th'[t].pc # th[t].pc]_vars

\* callers of two providers have returned and the third provider's limiter
\* is as it was created
C20_Witness ==
    /\ \A t \in callers : Returned(t)
    /\ th[1].provider # th[2].provider
    /\ \A t \in callers : RATE_LIMITERS[th[t].provider].request_count = 1
    /\ \E p \in Providers : RATE_LIMITERS[p] = RateLimiter(Epoch)

UnsupportedProvider == "ValueError"
UnsupportedModelTier == "KeyError"
Registered(provider) == provider \in LLMProvider \cup {"none", "absent"}
Defined(model_type) == model_type \in ModelType \cup {"none", "absent"}

\* C18: a create_llm call for a provider that is not registered fails with
\* the error for an unsupported provider, one for a registered provider and
\* a tier that is not defined fails with the error for an unsupported tier;
\* a call that failed built no session, and no call changes the limiters,
\* the token tracker or the tools' LLM.
C18_CreateFailsCleanly ==
    /\ \A i \in DOMAIN created :
          LET c == created[i] IN
          /\ ~Registered(c.provider) => c.error = UnsupportedProvider
          /\ (Registered(c.provider) /\ ~Defined(c.model_type))
                => c.error = UnsupportedModelTier
          /\ c.error # "none" => c.session = 0
    /\ Len(sessions) = Cardinality({i \in DOMAIN created : created[i].error = "none"})
    /\ RATE_LIMITERS = [p \in Providers |-> RateLimiter(Epoch)]
    /\ token_tracker = TokenTracker
    /\ _llm = 0

\* C19: a create_llm call for a registered provider and a defined tier
\* (the analysis tier when none is given) returns a new wrapper of that
\* provider's class, with no history and no document, bound to the model
\* name of MODEL_CONFIGS for the provider and the tier.
C19_CreateBindsLookupModel ==
    \A i \in DOMAIN created :
        LET c == created[i]
            p == IF c.provider \in {"none", "absent"} THEN DEFAULT_PROVIDER
                 ELSE c.provider
            tier == IF c.model_type = "absent" THEN "none" ELSE c.model_type
        IN (Registered(c.provider) /\ Defined(c.model_type)) =>
              /\ c.error = "none"
              /\ c.session \in DOMAIN sessions
              /\ sessions[c.session].kind = WrapperOf(p)
              /\ sessions[c.session].messages = <<>>
              /\ sessions[c.session].file_contents = <<>>
              /\ sessions[c.session].model = get_model_config(p, tier).name

(* -------- more properties of the sessions -------- *)
AsksOf(kind, ok) ==
    {outbound[i].ask : i \in {j \in DOMAIN outbound :
                                 outbound[j].call = kind /\ outbound[j].ok = ok}}

\* C21: after a provider call of an ask raised, the ask makes no further
\* provider call and ends by raising; no ask makes two calls of one kind, so
\* the continuation is the only request an ask sends after its main one.
C21_NoRetryAfterFailure ==
    /\ \A i \in DOMAIN outbound :
          ~outbound[i].ok =>
              /\ \A j \in DOMAIN outbound : j > i => outbound[j].ask # outbound[i].ask
              /\ log[outbound[i].ask].outcome = "raised"
    /\ \A i, j \in DOMAIN outbound :
          (i # j /\ outbound[i].ask = outbound[j].ask) =>
              outbound[i].call # outbound[j].call

\* one ask ended on a failed main call, another on a failed continuation
C21_Witness ==
    /\ ask.pc = "idle"
    /\ AsksOf("main", FALSE) # {}
    /\ AsksOf("continuation", FALSE) # {}

FailedCallStep ==
    /\ Len(outbound') = Len(outbound) + 1
    /\ ~outbound'[Len(outbound')].ok

\* C22: the step in which a provider call fails leaves the limiter as the
\* acquire before the call left it, with the call counted in request_count
\* and its estimate in token_count, and appends no usage record; the usage
\* history has one record per call that was answered.
C22_FailedCallStaysCounted ==
    /\ [][FailedCallStep =>
            /\ RATE_LIMITERS' = RATE_LIMITERS
            /\ RATE_LIMITERS'[llm.kind].request_count >= 1
            /\ RATE_LIMITERS'[llm.kind].token_count >= ask.estimated_tokens
            /\ token_tracker' = token_tracker]_vars
    /\ [](ask.pc = "idle" =>
            Len(token_tracker.history)
               = Cardinality({i \in DOMAIN outbound : outbound[i].ok}))

\* two calls were made in one window, one of them failed: both are counted
\* by the limiter, one is recorded
C22_Witness ==
    /\ ask.pc = "idle"
    /\ Len(outbound) = 2
    /\ \E i \in DOMAIN outbound : ~outbound[i].ok
    /\ RATE_LIMITERS[llm.kind].request_count = 2
    /\ RATE_LIMITERS[llm.kind].token_count > 0
    /\ Len(token_tracker.history) = 1

IsPrefix(a, b) == Len(a) <= Len(b) /\ SubSeq(b, 1, Len(a)) = a

\* C28: every step leaves the history the session had as a prefix of the
\* history it has afterwards.
C28_HistoryOnlyGrows == [][IsPrefix(History, History')]_vars

Continued(k) ==
    \E j \in DOMAIN outbound : outbound[j].ask = k /\ outbound[j].call = "continuation"

\* C29: an ask sends a continuation only after a main reply whose counts of
\* "{" and "}" differ, and every ask that ended after such a reply sent one.
C29_ContinuationIffUnbalanced ==
    \A i \in DOMAIN outbound :
        (outbound[i].call = "main" /\ outbound[i].ok) =>
            LET k == outbound[i].ask
                differ == Count(outbound[i].reply, "{") # Count(outbound[i].reply, "}")
            IN /\ Continued(k) => differ
               /\ (log[k].outcome # "running" /\ differ) => Continued(k)

\* one ask got a reply with no braces, another a reply with an open brace
C29_Witness ==
    /\ ask.pc = "idle"
    /\ \E i, j \in DOMAIN outbound :
          /\ outbound[i].call = "main" /\ outbound[i].ok
          /\ outbound[j].call = "main" /\ outbound[j].ok
          /\ Count(outbound[i].reply, "{") = 0 /\ Count(outbound[i].reply, "}") = 0
          /\ ~Continued(outbound[i].ask)
          /\ Count(outbound[j].reply, "{") > Count(outbound[j].reply, "}")
          /\ Continued(outbound[j].ask)

\* C30: after a call on the session ended by raising, the history, the
\* attached contents and first_call are those the call found.
C30_FailedAskLeavesSession ==
    (ask.pc = "idle" /\ log # <<>> /\ log[Len(log)].outcome = "raised") =>
        LET b == log[Len(log)].before IN
        /\ llm.messages = b.messages
        /\ llm.chat_history = b.chat_history
        /\ llm.file_contents = b.file_contents
        /\ llm.first_call = b.first_call

(* -------- more properties of the token tracker -------- *)
\* C24: a step that answers get_total_usage (with or without a model) or
\* get_running_total leaves the history and the running totals unchanged,
\* and two consecutive queries that are the same and have no record between
\* them are answered the same.
C24_QueriesReadOnly ==
    /\ [][answers' # answers => token_tracker' = token_tracker]_vars
    /\ [](Len(answers) = 2 =>
            ((/\ answers[1].query = answers[2].query
              /\ answers[1].model = answers[2].model
              /\ answers[1].records = answers[2].records)
                => answers[1].result = answers[2].result))

\* the same query by model was answered twice after a record was made, and
\* another record was made after the two answers
C24_Witness ==
    /\ Len(answers) = 2
    /\ answers[1].query = "get_total_usage" /\ answers[2].query = "get_total_usage"
    /\ answers[1].model = answers[2].model /\ answers[1].model # NoModel
    /\ answers[1].records = 1 /\ answers[2].records = 1
    /\ answers[2].result.total_tokens > 0
    /\ Len(token_tracker.history) = 2

\* C25: every track_usage call returns normally and appends one record.
C25_RecordNeverFails ==
    \A i \in DOMAIN tracked :
        /\ tracked[i].error = "none"
        /\ tracked[i].records = 1

(* -------- properties of the tools -------- *)
Ran == tool.pc # "idle"
Unparseable == response \notin {None, Raised} /\ ~IsJson(Clean(tool.name, response))

\* C23: a tool whose reply cannot be made valid JSON reports the failure
\* with the raw reply, and returns no placeholder with empty or zero data.
C23_UnparseableReplySurfaced ==
    (Ran /\ Unparseable) =>
        /\ tool.out.kind = "error"
        /\ tool.out.raw = response

\* C26: when the cleaning of a tool produced valid JSON text, cleaning that
\* text again gives the same text.
C26_CleaningIdempotent ==
    (tool.pc = "again" /\ IsJson(tool.out.cleaned)) =>
        tool.again = tool.out.cleaned

\* prose, a fence with or without the json tag, the object, the closing fence
FencedReply(tag, object) ==
    Prose \o NL \o Fence \o tag \o NL \o object \o NL \o Fence

\* C27: for a reply of prose followed by one fenced JSON object, the fence
\* with or without the json tag, the cleaning of every tool gives exactly
\* the text of the object.
C27_FencedObjectExtracted ==
    \A tag \in {<<>>, JsonTag}, object \in Objects :
        (Ran /\ response = FencedReply(tag, object)) =>
            tool.out.cleaned = object

(* -------- attaching documents, and asks without a prompt -------- *)
\* the files whose content a payload carries
DocsIn(content) ==
    UNION {Range(content[j].data) : j \in {k \in DOMAIN content : IsDoc(content[k])}}
DocsSent(messages) == UNION {DocsIn(messages[i].content) : i \in DOMAIN messages}
\* the provider calls of the k-th call on the session
CallsOf(k) == {i \in DOMAIN outbound : outbound[i].ask = k}
\* the session as the k-th call on it left it: the one the next call found,
\* before that call stored its contents if it is a set_file_contents
SessionAfter(k) ==
    IF k = Len(log) THEN llm
    ELSE [log[k + 1].before EXCEPT !.file_contents = log[k].before.file_contents]

\* C31: a set_file_contents with non-empty contents whose verification ask
\* returned made one ask (one main call, with the verification prompt), sent
\* every document of the contents in a provider call of that ask and left
\* first_call False, and no later call on the session takes the first-call
\* branch that attaches documents.
C31_AttachSendsDocumentsOnce ==
    \A k \in DOMAIN log :
        (IsAttach(k) /\ log[k].arg # <<>> /\ log[k].outcome = "returned") =>
            /\ Times(log[k].calls, "main") = 1
            /\ log[k].before.file_contents = log[k].arg
            /\ \E i \in CallsOf(k) :
                  outbound[i].ok /\ Range(log[k].arg) \subseteq DocsSent(outbound[i].messages)
            /\ ~SessionAfter(k).first_call
            /\ \A j \in DOMAIN log : j > k => ~log[j].before.first_call

\* C31 for a first attach whose files can all be read
C31_FirstReadableAttach ==
    \A k \in DOMAIN log :
        (/\ IsAttach(k) /\ log[k].arg # <<>> /\ log[k].outcome = "returned"
         /\ \A j \in 1..(k - 1) : ~IsAttach(j)
         /\ \E i \in CallsOf(k) : HasDoc(outbound[i].messages)) =>
            /\ Times(log[k].calls, "main") = 1
            /\ \E i \in CallsOf(k) :
                  outbound[i].ok /\ Range(log[k].arg) \subseteq DocsSent(outbound[i].messages)
            /\ ~SessionAfter(k).first_call
            /\ \A j \in DOMAIN log : j > k => ~log[j].before.first_call

\* the k-th call on the session was a get_response without a prompt
IsNoPrompt(k) == log[k].op = "get_response" /\ log[k].arg \in NoPrompts

\* C32: a get_response without a prompt makes no provider call (and so no
\* acquire before it and no usage record after it) and leaves the session as
\* it found it, for the three wrappers.
C32_NoPromptDoesNothing ==
    \A k \in DOMAIN log :
        IsNoPrompt(k) =>
            /\ CallsOf(k) = {}
            /\ log[k].calls = <<>>
            /\ (k < Len(log) \/ ask.pc = "idle") => SessionAfter(k) = log[k].before

\* C32 for the wrappers other than ClaudeWrapper
C32_NoPromptDoesNothingButClaude ==
    llm.kind # "claude" => C32_NoPromptDoesNothing

(* -------- the length of the wait of one acquire -------- *)
\* C33: the sleep times one check_limits call asks for add up to no more than
\* min_request_interval + 60 s.
C33_WaitBounded ==
    \A t \in callers : th[t].slept <= Cfg(t).min_request_interval + Window

\* C33 for the calls whose estimate fits the token budget of a window
C33_WaitBoundedWithinBudget ==
    \A t \in callers :
        th[t].estimated_tokens <= Cfg(t).tokens_per_minute =>
            th[t].slept <= Cfg(t).min_request_interval + Window

(* -------- the order of the pipeline and the status messages -------- *)
FullPipeline == AnalysisPipeline \o ReasoningPipeline

Extracted == tool.pc = "balances"
\* the chunks that were asked for and whose reply was parsed
ParsedChunks ==
    {k \in DOMAIN tool.asks : Chunk(tool.replies[k], k, TRUE).parsed}
EntriesOf(k) == Range(Entries(clean_tagged(tool.replies[k])))
DatesOf(k) == EntriesOf(k) \ {Undated}
\* every entry of every reply has a date
AllDated == \A k \in DOMAIN tool.replies : Undated \notin EntriesOf(k)
ReturnedDates == {tool.out.entries[i].date : i \in DOMAIN tool.out.entries}

\* C36: for n >= 1 periods the tool asks once for each of the ceil(n/2)
\* chunks of at most two consecutive periods in start-date order, whatever
\* asks raised and whatever replies could not be parsed, and the dates of
\* every chunk that was parsed are in the result.
C36_ChunksIndependent ==
    Extracted =>
        LET n == Len(tool.periods)
            sorted == SortPeriods(tool.periods)
        IN /\ Len(tool.asks) = NumChunks(n)
           /\ \A k \in DOMAIN tool.asks : tool.asks[k] = ChunkPeriods(sorted, k)
           /\ AllDated =>
                 \A k \in DOMAIN tool.replies :
                     Chunk(tool.replies[k], k, TRUE).parsed =>
                         DatesOf(k) \subseteq ReturnedDates

\* C36 for the calls whose first ask did not raise
C36_ChunksIndependentAfterFirst ==
    (Extracted /\ tool.replies[1] # Raised) => C36_ChunksIndependent

\* C37: the returned list is in ascending order of date and holds no date
\* twice, the entry of a date comes from the earliest parsed chunk that
\* returned the date, and every date of a parsed chunk is in the list.
C37_SortedUniqueEarliest ==
    Extracted =>
        LET es == tool.out.entries IN
        /\ \A i, j \in DOMAIN es : i < j => Before(es[i].date, es[j].date)
        /\ \A i \in DOMAIN es :
              /\ es[i].chunk \in ParsedChunks
              /\ es[i].date \in DatesOf(es[i].chunk)
              /\ \A k \in ParsedChunks : es[i].date \in DatesOf(k) => es[i].chunk <= k
        /\ \A k \in ParsedChunks : DatesOf(k) \subseteq ReturnedDates

\* C37 for replies whose entries all have a date
C37_SortedUniqueEarliestDated ==
    (Extracted /\ AllDated) => C37_SortedUniqueEarliest

====
